---- MODULE Spec2Model ----
(***************************************************************************)
(* State-machine model of the audio capture prototype:                     *)
(*   - useAudioCapture   (capture session: stream, analysis context)       *)
(*   - useAudioRecording (download recorder with the tail-retention        *)
(*                        segmenter, live re-spawn loop, upload pipeline)  *)
(*   - AudioCapture      (the component wiring the hooks, transcript)      *)
(* Every handler of the source is an operator from a state record to a     *)
(* state record; an action applies one handler (one browser task) to the   *)
(* current state.                                                          *)
(***************************************************************************)
EXTENDS Integers, Sequences, FiniteSets, TLC

\* ---------------------------------------------------------------- bounds
MaxChunks == 10         \* dataavailable events delivered in a run
ScenarioChunks == 21    \* dataavailable events in the 5 s scenario runs
MaxStreams == 1         \* getDisplayMedia calls in the session runs
MaxRecordings == 2      \* startRecording calls that construct a recorder
MaxLiveRecorders == 2   \* segment recorders constructed in the live runs
MaxLiveChunks == 2      \* non-empty blobs delivered in the live runs
MaxSessionChunks == 2   \* non-empty blobs delivered in the session runs
MaxSessionRecordings == 1      \* download recorders in the session runs
MaxSessionLiveRecorders == 2   \* segment recorders in the session runs
MaxCaptures == 2        \* getDisplayMedia calls in the capture runs
MaxHookStreams == 2     \* streams a caller passes to the hook in the hook runs
MaxHookRecorders == 1   \* recorders of either kind in the hook runs
MaxHookChunks == 1      \* non-empty blobs delivered in the hook runs
MaxPipeChunks == 5      \* non-empty blobs delivered in the pipeline runs
MaxPipeRecordings == 1  \* download recorders in the pipeline runs
MaxNormalizerCalls == 2 \* ensureWavBlob calls in the normalizer runs
MaxFetches == 2         \* transcribeBlob calls in the transcription client runs
MaxRespawnStreams == 1  \* streams the caller passes in the re-spawn runs
MaxRespawnRecorders == 2     \* live recorders in the re-spawn runs
MaxRespawnChunks == 1   \* non-empty blobs delivered in the re-spawn runs
MaxOverlapRecorders == 3     \* live recorders in the overlap runs
MaxOverlapChunks == 1   \* non-empty blobs delivered in the overlap runs
MaxTogglesChunks == 2   \* non-empty blobs delivered in the two-toggle runs
MaxTogglesRecordings == 1    \* download recorders in the two-toggle runs
MaxTogglesLiveRecorders == 1 \* live recorders in the two-toggle runs

\* ------------------------------------------------------ program constants
timesliceMs == 250
overlapMs == 1000
defaultSegmentDurationSec == 5
minSegmentTargetMs == 1000
maxTranscriptLines == 200
TARGET_SAMPLE_RATE == 16000

VARIABLES
  \* hook options and browser capability (fixed for a run)
  opts,                 \* [streamToServer, segmentDurationSec]
  mimeSupported,        \* MediaRecorder.isTypeSupported for WebM/Opus
  \* useAudioCapture
  isCapturing, hasAudioTrack, captureError, stream,
  audioContextRef, audioLevelIntervalRef,
  \* browser objects
  acquiring,            \* getDisplayMedia calls not yet settled
  streams,              \* streams handed out: track states, 'ended' listeners
  openContexts,         \* AudioContexts created and not closed
  activeIntervals,      \* audio-level intervals set and not cleared
  \* useAudioRecording: download recorder and tail-retention segmenter
  isRecording, downloadUrl, recError, timerRef,
  mediaRecorderRef,     \* [state, stream, no] of mediaRecorderRef.current
  chunksRef, segmentChunksRef, segmentElapsedMsRef,
  \* useAudioRecording: live subtitles (sequential re-spawn)
  liveSubtitlesEnabled, liveLoopActiveRef, liveRecorderRef, liveRecorders,
  \* upload pipeline and transcript
  jobs,                 \* every sendChunkToTranscription call with a payload
  requested,            \* job indices in the order transcribeBlob was called
  subtitles,
  \* ensureWavBlob (audioProcessing)
  calls,                \* every ensureWavBlob call: input, position, result
  decodeContexts,       \* AudioContexts created by ensureWavBlob, not closed
  \* transcribeBlob (transcription client)
  fetches,              \* every transcribeBlob call: position, response, result
  \* bookkeeping
  nextChunk,            \* id of the next dataavailable blob
  recordings            \* number of download recorders constructed

vars == << opts, mimeSupported, isCapturing, hasAudioTrack, captureError, stream,
           audioContextRef, audioLevelIntervalRef, acquiring, streams,
           openContexts, activeIntervals, isRecording, downloadUrl, recError,
           timerRef, mediaRecorderRef, chunksRef, segmentChunksRef,
           segmentElapsedMsRef, liveSubtitlesEnabled, liveLoopActiveRef,
           liveRecorderRef, liveRecorders, jobs, requested, subtitles,
           calls, decodeContexts, fetches, nextChunk, recordings >>

\* The current state as one record, and the assignment of a record to the
\* variables.
Cur ==
  [ opts |-> opts, mimeSupported |-> mimeSupported,
    isCapturing |-> isCapturing, hasAudioTrack |-> hasAudioTrack,
    captureError |-> captureError, stream |-> stream,
    audioContextRef |-> audioContextRef,
    audioLevelIntervalRef |-> audioLevelIntervalRef,
    acquiring |-> acquiring, streams |-> streams,
    openContexts |-> openContexts, activeIntervals |-> activeIntervals,
    isRecording |-> isRecording, downloadUrl |-> downloadUrl,
    recError |-> recError, timerRef |-> timerRef,
    mediaRecorderRef |-> mediaRecorderRef, chunksRef |-> chunksRef,
    segmentChunksRef |-> segmentChunksRef,
    segmentElapsedMsRef |-> segmentElapsedMsRef,
    liveSubtitlesEnabled |-> liveSubtitlesEnabled,
    liveLoopActiveRef |-> liveLoopActiveRef,
    liveRecorderRef |-> liveRecorderRef, liveRecorders |-> liveRecorders,
    jobs |-> jobs, requested |-> requested, subtitles |-> subtitles,
    calls |-> calls, decodeContexts |-> decodeContexts, fetches |-> fetches,
    nextChunk |-> nextChunk, recordings |-> recordings ]

Becomes(S) ==
  /\ opts' = S.opts
  /\ mimeSupported' = S.mimeSupported
  /\ isCapturing' = S.isCapturing
  /\ hasAudioTrack' = S.hasAudioTrack
  /\ captureError' = S.captureError
  /\ stream' = S.stream
  /\ audioContextRef' = S.audioContextRef
  /\ audioLevelIntervalRef' = S.audioLevelIntervalRef
  /\ acquiring' = S.acquiring
  /\ streams' = S.streams
  /\ openContexts' = S.openContexts
  /\ activeIntervals' = S.activeIntervals
  /\ isRecording' = S.isRecording
  /\ downloadUrl' = S.downloadUrl
  /\ recError' = S.recError
  /\ timerRef' = S.timerRef
  /\ mediaRecorderRef' = S.mediaRecorderRef
  /\ chunksRef' = S.chunksRef
  /\ segmentChunksRef' = S.segmentChunksRef
  /\ segmentElapsedMsRef' = S.segmentElapsedMsRef
  /\ liveSubtitlesEnabled' = S.liveSubtitlesEnabled
  /\ liveLoopActiveRef' = S.liveLoopActiveRef
  /\ liveRecorderRef' = S.liveRecorderRef
  /\ liveRecorders' = S.liveRecorders
  /\ jobs' = S.jobs
  /\ requested' = S.requested
  /\ subtitles' = S.subtitles
  /\ calls' = S.calls
  /\ decodeContexts' = S.decodeContexts
  /\ fetches' = S.fetches
  /\ nextChunk' = S.nextChunk
  /\ recordings' = S.recordings

\* ---------------------------------------------------------------- helpers
Min(a, b) == IF a <= b THEN a ELSE b
Max(a, b) == IF a >= b THEN a ELSE b
CeilDiv(a, b) == (a + b - 1) \div b
LastN(s, n) == SubSeq(s, Len(s) - n + 1, Len(s))
FirstN(s, n) == SubSeq(s, 1, n)
NoError == "none"

\* Math.max(1000, (opts?.segmentDurationSec || 5) * 1000); 0 stands for an
\* option that is absent (or 0, which || treats alike).
segmentTargetMs(o) ==
  Max(minSegmentTargetMs,
      (IF o.segmentDurationSec = 0 THEN defaultSegmentDurationSec
                                   ELSE o.segmentDurationSec) * 1000)

overlapCount == CeilDiv(overlapMs, timesliceMs)

\* ------------------------------------------------- transcript (component)
\* A text is a sequence of characters; \s matches space, tab and line feed.
IsSpace(c) == c \in {" ", "\t", "\n"}

\* t.replace(/\s+/g, ' '): every run of whitespace becomes one space.
RECURSIVE CollapseSpaces(_)
CollapseSpaces(t) ==
  IF t = << >> THEN t
  ELSE IF ~IsSpace(t[1]) THEN << t[1] >> \o CollapseSpaces(Tail(t))
  ELSE IF Len(t) > 1 /\ IsSpace(t[2]) THEN CollapseSpaces(Tail(t))
  ELSE << " " >> \o CollapseSpaces(Tail(t))

\* String.prototype.trim on a text whose whitespace runs are single spaces.
Trim(t) ==
  LET a == IF Len(t) > 0 /\ IsSpace(t[1]) THEN Tail(t) ELSE t
  IN  IF Len(a) > 0 /\ IsSpace(a[Len(a)]) THEN SubSeq(a, 1, Len(a) - 1) ELSE a

NormalizeText(t) == Trim(CollapseSpaces(t))

\* onTranscription keeping the first 200 lines instead of the last.
onTranscriptionKeepOldest(S, text) ==
  LET t == NormalizeText(text)
      prev == S.subtitles
      lastLine == IF Len(prev) > 0 THEN prev[Len(prev)] ELSE << >>
      grown == Append(prev, t)
      merged == IF Len(grown) > maxTranscriptLines
                  THEN FirstN(grown, maxTranscriptLines) ELSE grown
  IN  IF t = << >> THEN S
      ELSE IF t = lastLine THEN S
      ELSE [S EXCEPT !.subtitles = merged]

\* onTranscription discarding a text that equals any line of the transcript.
onTranscriptionDedupAll(S, text) ==
  LET t == NormalizeText(text)
      prev == S.subtitles
      grown == Append(prev, t)
      merged == IF Len(grown) > maxTranscriptLines
                  THEN LastN(grown, maxTranscriptLines) ELSE grown
  IN  IF t = << >> THEN S
      ELSE IF \E i \in DOMAIN prev : prev[i] = t THEN S
      ELSE [S EXCEPT !.subtitles = merged]

\* onTranscription without the slice(-200).
onTranscriptionNoCap(S, text) ==
  LET t == NormalizeText(text)
      prev == S.subtitles
      lastLine == IF Len(prev) > 0 THEN prev[Len(prev)] ELSE << >>
  IN  IF t = << >> THEN S
      ELSE IF t = lastLine THEN S
      ELSE [S EXCEPT !.subtitles = Append(prev, t)]

\* onTranscription without the comparison with the last line.
onTranscriptionNoDedup(S, text) ==
  LET t == NormalizeText(text)
      grown == Append(S.subtitles, t)
      merged == IF Len(grown) > maxTranscriptLines
                  THEN LastN(grown, maxTranscriptLines) ELSE grown
  IN  IF t = << >> THEN S
      ELSE [S EXCEPT !.subtitles = merged]

\* opts.onTranscription as the component passes it.
onTranscription(S, text) ==
  LET t == NormalizeText(text)
      prev == S.subtitles
      lastLine == IF Len(prev) > 0 THEN prev[Len(prev)] ELSE << >>
      grown == Append(prev, t)
      merged == IF Len(grown) > maxTranscriptLines
                  THEN LastN(grown, maxTranscriptLines) ELSE grown
  IN  IF t = << >> THEN S
      ELSE IF t = lastLine THEN S
      ELSE [S EXCEPT !.subtitles = merged]

\* -------------------------------------------------------- upload pipeline
\* A blob is the sequence of its non-empty chunks, with where it was recorded.
Blob(chunks, src, rec) == [chunks |-> chunks, src |-> src, rec |-> rec]

\* sendChunkToTranscription up to its first await: an empty blob returns, any
\* other (its type is WebM, never WAV) enters ensureWavBlob.
sendChunkToTranscription(S, blob) ==
  IF Len(blob.chunks) = 0 THEN S
  ELSE [S EXCEPT !.jobs = Append(@, [seg |-> blob.chunks, src |-> blob.src,
                                     rec |-> blob.rec, stage |-> "normalizing",
                                     payload |-> "none"])]

\* normalizeSettled dropping the segment when the conversion fails.
normalizeSettledDropping(S, j, ok) ==
  IF ok THEN [S EXCEPT !.jobs[j].stage = "uploading",
                       !.jobs[j].payload = "wav",
                       !.requested = Append(@, j)]
  ELSE [S EXCEPT !.jobs[j].stage = "dropped"]

\* ensureWavBlob settles: on success the payload is the WAV blob, on a
\* conversion error the raw chunk; then transcribeBlob issues the request.
normalizeSettled(S, j, ok) ==
  [S EXCEPT !.jobs[j].stage = "uploading",
            !.jobs[j].payload = IF ok THEN "wav" ELSE "raw",
            !.requested = Append(@, j)]

\* uploadSettled ignoring a result that arrives while live subtitles are off.
uploadSettledCancelled(S, j, ok, text) ==
  IF ok THEN
    IF S.liveSubtitlesEnabled
      THEN onTranscription([S EXCEPT !.jobs[j].stage = "done"], text)
      ELSE [S EXCEPT !.jobs[j].stage = "done"]
  ELSE [S EXCEPT !.jobs[j].stage = "failed", !.recError = "uploadFailed"]

\* uploadSettled issuing the request of a failed segment again.
uploadSettledRetrying(S, j, ok, text) ==
  IF ok THEN onTranscription([S EXCEPT !.jobs[j].stage = "done"], text)
  ELSE [S EXCEPT !.recError = "uploadFailed", !.requested = Append(@, j)]

\* uploadSettled treating a failed request as fatal for the recording.
uploadSettledHalting(S, j, ok, text) ==
  IF ok THEN onTranscription([S EXCEPT !.jobs[j].stage = "done"], text)
  ELSE [S EXCEPT !.jobs[j].stage = "failed", !.recError = "uploadFailed",
                 !.isRecording = FALSE]

\* transcribeBlob settles: a result goes to onTranscription, a failure
\* (transport, non-2xx) is written to the error field.
uploadSettled(S, j, ok, text) ==
  IF ok THEN onTranscription([S EXCEPT !.jobs[j].stage = "done"], text)
  ELSE [S EXCEPT !.jobs[j].stage = "failed", !.recError = "uploadFailed"]

\* ------------------------------------------ transcription client (fetch)
\* A Response: its status, the text of its body, what JSON.parse makes of that
\* text, and whether the body stream has been read. The parsed value keeps
\* the two fields the client looks at; a field that is absent is the empty
\* string, which every use below treats like null (x || ...).
NotJson == [valid |-> FALSE, error |-> "", text |-> ""]
NoResponse == [status |-> 0, body |-> "", parsed |-> NotJson, bodyUsed |-> FALSE]

\* res.ok
ResOk(res) == res.status >= 200 /\ res.status <= 299

\* The response once one of its body readers has been called.
Consumed(res) == [res EXCEPT !.bodyUsed = TRUE]

\* res.json(): rejects when the body was already read or is not JSON.
resJson(res) ==
  IF res.bodyUsed \/ ~res.parsed.valid
    THEN [ok |-> FALSE, value |-> NotJson]
    ELSE [ok |-> TRUE, value |-> res.parsed]

\* res.text(): rejects when the body was already read.
resText(res) ==
  IF res.bodyUsed THEN [ok |-> FALSE, value |-> ""]
                  ELSE [ok |-> TRUE, value |-> res.body]

\* safeError(res): the error field of the JSON body, or null (here "").
safeError(res) ==
  LET data == resJson(res)
      text == resText(Consumed(res))
  IN  IF data.ok THEN data.value.error
      ELSE IF text.ok THEN text.value
      ELSE ""

\* transcribeBlob(blob) up to its await of fetch.
transcribeBlob(S) ==
  [S EXCEPT !.fetches =
     Append(@, [pc |-> "fetching", res |-> NoResponse,
                value |-> "", message |-> ""])]

\* fetch settled: rejected (no response), or resolved with res; the rest of
\* transcribeBlob reads only this response.
fetchSettled(S, f, rejected, res) ==
  IF rejected THEN
    [S EXCEPT !.fetches[f].pc = "thrown",
              !.fetches[f].message = "Failed to fetch"]
  ELSE IF ~ResOk(res) THEN
    LET msg == safeError(res)
    IN  [S EXCEPT !.fetches[f].pc = "thrown",
                  !.fetches[f].res = Consumed(res),
                  !.fetches[f].message =
                     IF msg = "" THEN "HTTP " \o ToString(res.status) ELSE msg]
  ELSE
    LET data == resJson(res)
    IN  IF data.ok
          THEN [S EXCEPT !.fetches[f].pc = "returned",
                         !.fetches[f].res = Consumed(res),
                         !.fetches[f].value = data.value.text]
          ELSE [S EXCEPT !.fetches[f].pc = "thrown",
                         !.fetches[f].res = Consumed(res),
                         !.fetches[f].message = "SyntaxError"]

\* ------------------------------------------ normalizer (audioProcessing)
\* An audio blob: the MIME type it reports, what its container declares, and
\* for a WAV written here its PCM samples. A float sample is kept in
\* thousandths (1000 is 1.0).
NoBlob == [type |-> "", channels |-> 0, rate |-> 0, bits |-> 0, pcm |-> << >>]
NoBuffer == [channels |-> 0, rate |-> 0, samples |-> << >>]

\* blob.type.includes('wav')
IncludesWav(type) == type \in {"audio/wav", "audio/x-wav", "audio/wave"}

\* DataView.setInt16 of a number: truncated, then taken modulo 2^16.
ToInt16(v) == ((v + 32768) % 65536) - 32768

\* floatTo16BitPCM without the clamp.
floatTo16BitPCMUnclamped(sample) ==
  IF sample < 0
    THEN ToInt16(0 - (((0 - sample) * 32768) \div 1000))
    ELSE ToInt16((sample * 32767) \div 1000)

\* One sample of floatTo16BitPCM: clamp to [-1, 1], scale by 0x8000 below
\* zero and by 0x7fff otherwise, store as Int16.
floatTo16BitPCM(sample) ==
  LET clamped == Max(0 - 1000, Min(1000, sample))
  IN  IF clamped < 0
        THEN ToInt16(0 - (((0 - clamped) * 32768) \div 1000))
        ELSE ToInt16((clamped * 32767) \div 1000)

\* encodeWavBuffer: channel 0 of the buffer under a header that declares PCM,
\* one channel, the buffer's sample rate and 16 bits per sample.
encodeWavBuffer(audioBuffer) ==
  [type |-> "audio/wav", channels |-> 1, rate |-> audioBuffer.rate, bits |-> 16,
   pcm |-> [i \in DOMAIN audioBuffer.samples |->
              floatTo16BitPCM(audioBuffer.samples[i])]]

\* resampleBuffer once startRendering resolved with the rendered samples: the
\* buffer of OfflineAudioContext(1, length, sampleRate).
resampleBuffer(sampleRate, rendered) ==
  [channels |-> 1, rate |-> sampleRate, samples |-> rendered]

\* ensureWavBlob without the fast path.
ensureWavBlobAlwaysDecode(S, blob) ==
  [S EXCEPT !.calls =
     Append(@, [input |-> blob, pc |-> "reading", decoded |-> NoBuffer,
                rendered |-> << >>, output |-> NoBlob])]

\* ensureWavBlob(blob) up to its first await: a blob whose type includes
\* 'wav' is returned as it is, any other is read into an ArrayBuffer.
ensureWavBlob(S, blob) ==
  [S EXCEPT !.calls =
     Append(@, [input |-> blob,
                pc |-> IF IncludesWav(blob.type) THEN "returned" ELSE "reading",
                decoded |-> NoBuffer,
                rendered |-> << >>,
                output |-> IF IncludesWav(blob.type) THEN blob ELSE NoBlob])]

\* blob.arrayBuffer() settled, then new AudioContext(): on success call c
\* holds its own context and decodeAudioData is started.
arrayBufferSettled(S, c, ok) ==
  IF ok THEN [S EXCEPT !.calls[c].pc = "decoding",
                       !.decodeContexts = @ \cup {c}]
  ELSE [S EXCEPT !.calls[c].pc = "thrown"]

\* decodeAudioData settled: the decoded buffer has the channels of the input
\* at the rate of the context; a failure goes to the finally block.
decodeSettled(S, c, ok, contextRate) ==
  IF ok THEN [S EXCEPT !.calls[c].pc = "resampling",
                       !.calls[c].decoded =
                          [channels |-> S.calls[c].input.channels,
                           rate |-> contextRate, samples |-> << >>]]
  ELSE [S EXCEPT !.calls[c].pc = "closingThrown"]

\* closeSettledLeaking: the context is closed on the success path only.
closeSettledLeaking(S, c) ==
  IF S.calls[c].pc = "closing"
    THEN [S EXCEPT !.calls[c].pc = "returned",
                   !.decodeContexts = @ \ {c}]
    ELSE [S EXCEPT !.calls[c].pc = "thrown"]

\* resampleSettled encoding at the rate of the decoding context.
resampleSettledDeviceRate(S, c, ok, rendered) ==
  IF ok THEN [S EXCEPT !.calls[c].pc = "closing",
                       !.calls[c].decoded = NoBuffer,
                       !.calls[c].rendered = rendered,
                       !.calls[c].output =
                          encodeWavBuffer(resampleBuffer(S.calls[c].decoded.rate,
                                                         rendered))]
  ELSE [S EXCEPT !.calls[c].pc = "closingThrown",
                 !.calls[c].decoded = NoBuffer]

\* resampleBuffer settled; on success the WAV blob is encoded; either way the
\* finally block starts closing the context.
resampleSettled(S, c, ok, rendered) ==
  IF ok THEN [S EXCEPT !.calls[c].pc = "closing",
                       !.calls[c].decoded = NoBuffer,
                       !.calls[c].rendered = rendered,
                       !.calls[c].output =
                          encodeWavBuffer(resampleBuffer(TARGET_SAMPLE_RATE,
                                                         rendered))]
  ELSE [S EXCEPT !.calls[c].pc = "closingThrown",
                 !.calls[c].decoded = NoBuffer]

\* finally { await audioContext.close() }: the context of call c is closed
\* and the call returns its blob or rethrows.
closeSettled(S, c) ==
  [S EXCEPT !.calls[c].pc = IF @ = "closing" THEN "returned" ELSE "thrown",
            !.decodeContexts = @ \ {c}]

\* ------------------------------------------- download recorder, segmenter
NoUrl == [url |-> 0, blob |-> << >>]
NoRecorder == [state |-> "none", stream |-> 0, no |-> 0]

\* MediaRecorder.stop(): a recording recorder becomes inactive and its final
\* dataavailable and stop events are queued.
recorderStop(r) ==
  IF r.state = "recording" THEN [r EXCEPT !.state = "stopPending"] ELSE r

\* startRecording without the check for an audio track.
startRecordingAnyStream(S) ==
  IF S.stream = 0 THEN [S EXCEPT !.recError = "noStream"]
  ELSE IF ~S.mimeSupported THEN [S EXCEPT !.recError = "unsupported"]
  ELSE LET S1 == [S EXCEPT !.mediaRecorderRef =
                              [state |-> "inactive", stream |-> S.stream,
                               no |-> S.recordings + 1],
                           !.recordings = @ + 1,
                           !.chunksRef = << >>]
       IN  IF S.streams[S.stream].audio # "live"
             THEN [S1 EXCEPT !.recError = "startFailed"]
             ELSE [S1 EXCEPT !.mediaRecorderRef.state = "recording",
                             !.isRecording = TRUE,
                             !.recError = NoError,
                             !.timerRef = TRUE]

\* startRecording without the reset of chunksRef.
startRecordingKeepingChunks(S) ==
  IF S.stream = 0 THEN [S EXCEPT !.recError = "noStream"]
  ELSE IF S.streams[S.stream].audio = "none" THEN [S EXCEPT !.recError = "noTrack"]
  ELSE IF ~S.mimeSupported THEN [S EXCEPT !.recError = "unsupported"]
  ELSE LET S1 == [S EXCEPT !.mediaRecorderRef =
                              [state |-> "inactive", stream |-> S.stream,
                               no |-> S.recordings + 1],
                           !.recordings = @ + 1]
       IN  IF S.streams[S.stream].audio # "live"
             THEN [S1 EXCEPT !.recError = "startFailed"]
             ELSE [S1 EXCEPT !.mediaRecorderRef.state = "recording",
                             !.isRecording = TRUE,
                             !.recError = NoError,
                             !.timerRef = TRUE]

startRecording(S) ==
  IF S.stream = 0 THEN [S EXCEPT !.recError = "noStream"]
  ELSE IF S.streams[S.stream].audio = "none" THEN [S EXCEPT !.recError = "noTrack"]
  ELSE IF ~S.mimeSupported THEN [S EXCEPT !.recError = "unsupported"]
  ELSE LET S1 == [S EXCEPT !.mediaRecorderRef =
                              [state |-> "inactive", stream |-> S.stream,
                               no |-> S.recordings + 1],
                           !.recordings = @ + 1,
                           !.chunksRef = << >>]
       IN  IF S.streams[S.stream].audio # "live"
             THEN \* recorder.start throws on an inactive stream
                  [S1 EXCEPT !.recError = "startFailed"]
             ELSE [S1 EXCEPT !.mediaRecorderRef.state = "recording",
                             !.isRecording = TRUE,
                             !.recError = NoError,
                             !.timerRef = TRUE]

\* ondataavailable sealing only when elapsed time exceeds the target.
ondataavailableLate(S, size) ==
  IF size > 0 THEN
    LET c == S.nextChunk
        S1 == [S EXCEPT !.chunksRef = Append(@, c), !.nextChunk = @ + 1]
        buffered == Append(S.segmentChunksRef, c)
        elapsed == S.segmentElapsedMsRef + timesliceMs
        keep == Min(Len(buffered), overlapCount)
    IN  IF ~S.opts.streamToServer THEN S1
        ELSE IF elapsed > segmentTargetMs(S.opts) THEN
          sendChunkToTranscription(
            [S1 EXCEPT !.segmentChunksRef = LastN(buffered, keep),
                       !.segmentElapsedMsRef = keep * timesliceMs],
            Blob(buffered, "recording", S.mediaRecorderRef.no))
        ELSE [S1 EXCEPT !.segmentChunksRef = buffered,
                        !.segmentElapsedMsRef = elapsed]
  ELSE S

\* ondataavailable retaining one chunk too few after a seal.
ondataavailableShortTail(S, size) ==
  IF size > 0 THEN
    LET c == S.nextChunk
        S1 == [S EXCEPT !.chunksRef = Append(@, c), !.nextChunk = @ + 1]
        buffered == Append(S.segmentChunksRef, c)
        elapsed == S.segmentElapsedMsRef + timesliceMs
        keep == Min(Len(buffered), overlapCount - 1)
    IN  IF ~S.opts.streamToServer THEN S1
        ELSE IF elapsed >= segmentTargetMs(S.opts) THEN
          sendChunkToTranscription(
            [S1 EXCEPT !.segmentChunksRef = LastN(buffered, keep),
                       !.segmentElapsedMsRef = keep * timesliceMs],
            Blob(buffered, "recording", S.mediaRecorderRef.no))
        ELSE [S1 EXCEPT !.segmentChunksRef = buffered,
                        !.segmentElapsedMsRef = elapsed]
  ELSE S

\* ondataavailable keeping the whole buffer after a seal.
ondataavailableKeepingAll(S, size) ==
  IF size > 0 THEN
    LET c == S.nextChunk
        S1 == [S EXCEPT !.chunksRef = Append(@, c), !.nextChunk = @ + 1]
        buffered == Append(S.segmentChunksRef, c)
        elapsed == S.segmentElapsedMsRef + timesliceMs
    IN  IF ~S.opts.streamToServer THEN S1
        ELSE IF elapsed >= segmentTargetMs(S.opts) THEN
          sendChunkToTranscription(
            [S1 EXCEPT !.segmentChunksRef = buffered,
                       !.segmentElapsedMsRef = Len(buffered) * timesliceMs],
            Blob(buffered, "recording", S.mediaRecorderRef.no))
        ELSE [S1 EXCEPT !.segmentChunksRef = buffered,
                        !.segmentElapsedMsRef = elapsed]
  ELSE S

\* ondataavailable submitting every chunk it receives for transcription.
ondataavailableUploading(S, size) ==
  IF size > 0 THEN
    sendChunkToTranscription(
      [S EXCEPT !.chunksRef = Append(@, S.nextChunk), !.nextChunk = @ + 1],
      Blob(<< S.nextChunk >>, "recording", S.mediaRecorderRef.no))
  ELSE S

\* recorder.ondataavailable of the download recorder for a blob of the given
\* byte size; a non-empty blob is identified by its arrival number.
ondataavailable(S, size) ==
  IF size > 0 THEN
    LET c == S.nextChunk
        S1 == [S EXCEPT !.chunksRef = Append(@, c), !.nextChunk = @ + 1]
    IN  IF S.opts.streamToServer THEN
          LET buffered == Append(S.segmentChunksRef, c)
              elapsed == S.segmentElapsedMsRef + timesliceMs
          IN  IF elapsed >= segmentTargetMs(S.opts) THEN
                LET keep == Min(Len(buffered), overlapCount)
                    tail == IF keep > 0 THEN LastN(buffered, keep) ELSE << >>
                IN  sendChunkToTranscription(
                      [S1 EXCEPT !.segmentChunksRef = tail,
                                 !.segmentElapsedMsRef = keep * timesliceMs],
                      Blob(buffered, "recording", S.mediaRecorderRef.no))
              ELSE [S1 EXCEPT !.segmentChunksRef = buffered,
                              !.segmentElapsedMsRef = elapsed]
        ELSE S1
  ELSE S

\* recorder.onerror of the download recorder.
onerror(S) ==
  [S EXCEPT !.recError = "recorderError",
            !.mediaRecorderRef = recorderStop(@)]

\* onstop without the flush of the buffered segment.
onstopNoFlush(S) ==
  [S EXCEPT !.isRecording = FALSE,
            !.downloadUrl = [url |-> S.mediaRecorderRef.no, blob |-> S.chunksRef]]

\* recorder.onstop of the download recorder.
onstop(S) ==
  LET S1 == [S EXCEPT !.isRecording = FALSE,
                      !.downloadUrl = [url |-> S.mediaRecorderRef.no,
                                       blob |-> S.chunksRef]]
  IN  IF S.opts.streamToServer /\ Len(S.segmentChunksRef) > 0
        THEN sendChunkToTranscription(
               [S1 EXCEPT !.segmentChunksRef = << >>,
                          !.segmentElapsedMsRef = 0],
               Blob(S.segmentChunksRef, "recording", S.mediaRecorderRef.no))
        ELSE S1

\* stopRecording as rendered with state.isRecording = rendered; throws tells
\* whether stop() on a recorder that is already inactive raises.
stopRecording(S, rendered, throws) ==
  LET S1 == [S EXCEPT !.timerRef = FALSE]
  IN  IF S.mediaRecorderRef.state # "none" /\ rendered THEN
        IF S.mediaRecorderRef.state = "recording"
          THEN [S1 EXCEPT !.mediaRecorderRef = recorderStop(@)]
        ELSE IF throws THEN [S1 EXCEPT !.recError = "stopFailed"]
        ELSE S1
      ELSE S1

\* clearRecording without the reset of the elapsed time.
clearRecordingKeepingElapsed(S) ==
  [S EXCEPT !.segmentChunksRef = << >>,
            !.downloadUrl = NoUrl,
            !.recError = NoError]

clearRecording(S) ==
  [S EXCEPT !.segmentChunksRef = << >>,
            !.segmentElapsedMsRef = 0,
            !.downloadUrl = NoUrl,
            !.recError = NoError]

\* ------------------------------------------ live subtitles (re-spawn loop)
\* Whether recorder.start() in startSegmentRecorder raises: the loop flag is
\* set, the track and the recorder exist, and the recorded stream is inactive.
segmentStartThrows(S, sid, ctorThrows) ==
  /\ S.liveLoopActiveRef
  /\ S.streams[sid].audio = "ended"
  /\ ~ctorThrows

\* startSegmentRecorder reporting a failure without turning Live off.
startSegmentRecorderStayingOn(S, sid, ctorThrows) ==
  IF ~S.liveLoopActiveRef THEN S
  ELSE IF S.streams[sid].audio = "none" THEN [S EXCEPT !.recError = "lostTrack"]
  ELSE IF ctorThrows THEN [S EXCEPT !.recError = "liveRecorderFailed"]
  ELSE
    LET started == S.streams[sid].audio = "live"
        r == [state |-> IF started THEN "recording" ELSE "inactive",
              stream |-> sid,
              timer |-> started,
              chunks |-> << >>,
              stoppedByStopLive |-> FALSE]
    IN  [S EXCEPT !.liveRecorders = Append(@, r),
                  !.liveRecorderRef = Len(S.liveRecorders) + 1]

\* startSegmentRecorder of the closure created by a startLiveSubtitles call
\* that saw stream sid.
startSegmentRecorder(S, sid, ctorThrows) ==
  IF ~S.liveLoopActiveRef THEN S
  ELSE IF S.streams[sid].audio = "none" THEN
    [S EXCEPT !.recError = "lostTrack",
              !.liveLoopActiveRef = FALSE,
              !.liveSubtitlesEnabled = FALSE]
  ELSE IF ctorThrows THEN
    [S EXCEPT !.recError = "liveRecorderFailed",
              !.liveLoopActiveRef = FALSE,
              !.liveSubtitlesEnabled = FALSE]
  ELSE
    LET started == S.streams[sid].audio = "live"
        r == [state |-> IF started THEN "recording" ELSE "inactive",
              stream |-> sid,
              timer |-> started,
              chunks |-> << >>,
              stoppedByStopLive |-> FALSE]
    IN  [S EXCEPT !.liveRecorders = Append(@, r),
                  !.liveRecorderRef = Len(S.liveRecorders) + 1]

startLiveSubtitles(S, ctorThrows) ==
  IF S.liveSubtitlesEnabled THEN S
  ELSE IF S.stream = 0 THEN [S EXCEPT !.recError = "noStream"]
  ELSE IF ~S.mimeSupported THEN [S EXCEPT !.recError = "unsupported"]
  ELSE
    LET S1 == [S EXCEPT !.liveLoopActiveRef = TRUE,
                        !.liveSubtitlesEnabled = TRUE]
        S2 == startSegmentRecorder(S1, S.stream, ctorThrows)
    IN  IF segmentStartThrows(S1, S.stream, ctorThrows)
          THEN [S2 EXCEPT !.recError = "liveStartFailed"]
          ELSE S2

\* The segment timer of live recorder r fires.
segmentTimeout(S, r) ==
  [S EXCEPT !.liveRecorders[r].timer = FALSE,
            !.liveRecorders[r].state =
               IF @ = "recording" THEN "stopPending" ELSE @]

\* liveOndataavailable submitting the blob as it arrives, as the download
\* recorder's handler does, besides buffering it for onstop.
liveOndataavailableEager(S, r, size) ==
  IF size > 0
    THEN sendChunkToTranscription(
           [S EXCEPT !.liveRecorders[r].chunks = Append(@, S.nextChunk),
                     !.nextChunk = @ + 1],
           Blob(<< S.nextChunk >>, "live", r))
    ELSE S

\* dataavailable of live recorder r (started without a timeslice, so it fires
\* once, when the recorder stops).
liveOndataavailable(S, r, size) ==
  IF size > 0 THEN [S EXCEPT !.liveRecorders[r].chunks = Append(@, S.nextChunk),
                             !.nextChunk = @ + 1]
  ELSE S

\* liveOnstop dropping the buffered chunks once the loop flag is off.
liveOnstopDiscard(S, r, ctorThrows) ==
  LET chunks == S.liveRecorders[r].chunks
  IN  IF S.liveLoopActiveRef
        THEN startSegmentRecorder(
               IF Len(chunks) > 0
                 THEN sendChunkToTranscription(S, Blob(chunks, "live", r))
                 ELSE S,
               S.liveRecorders[r].stream, ctorThrows)
        ELSE S

\* liveOnstop handing the stopped recorder's buffer to the recorder it starts.
liveOnstopCarryOver(S, r, ctorThrows) ==
  LET chunks == S.liveRecorders[r].chunks
      S1 == IF Len(chunks) > 0
              THEN sendChunkToTranscription(S, Blob(chunks, "live", r))
              ELSE S
      S2 == startSegmentRecorder(S1, S.liveRecorders[r].stream, ctorThrows)
  IN  IF S1.liveLoopActiveRef
        THEN IF Len(S2.liveRecorders) > Len(S1.liveRecorders)
               THEN [S2 EXCEPT !.liveRecorders[Len(S2.liveRecorders)].chunks =
                                  chunks]
               ELSE S2
        ELSE S1

\* recorder.onstop of live recorder r.
liveOnstop(S, r, ctorThrows) ==
  LET chunks == S.liveRecorders[r].chunks
      S1 == IF Len(chunks) > 0
              THEN sendChunkToTranscription(S, Blob(chunks, "live", r))
              ELSE S
  IN  IF S1.liveLoopActiveRef
        THEN startSegmentRecorder(S1, S.liveRecorders[r].stream, ctorThrows)
        ELSE S1

\* stopLiveSubtitles stopping the download recorder as well.
stopLiveSubtitlesStoppingAll(S) ==
  LET r == S.liveRecorderRef
      S1 == [S EXCEPT !.liveLoopActiveRef = FALSE,
                      !.mediaRecorderRef = recorderStop(@)]
      S2 == IF r # 0
              THEN [S1 EXCEPT !.liveRecorderRef = 0,
                              !.liveRecorders[r].state =
                                 IF @ = "recording" THEN "stopPending" ELSE @,
                              !.liveRecorders[r].stoppedByStopLive =
                                 S.liveRecorders[r].state = "recording"]
              ELSE S1
  IN  [S2 EXCEPT !.liveSubtitlesEnabled = FALSE]

\* stopLiveSubtitles leaving the loop flag and the recorder as they are.
stopLiveSubtitlesFlagOnly(S) ==
  [S EXCEPT !.liveSubtitlesEnabled = FALSE]

stopLiveSubtitles(S) ==
  LET r == S.liveRecorderRef
      S1 == [S EXCEPT !.liveLoopActiveRef = FALSE]
      S2 == IF r # 0
              THEN [S1 EXCEPT !.liveRecorderRef = 0,
                              !.liveRecorders[r].state =
                                 IF @ = "recording" THEN "stopPending" ELSE @,
                              !.liveRecorders[r].stoppedByStopLive =
                                 S.liveRecorders[r].state = "recording"]
              ELSE S1
  IN  [S2 EXCEPT !.liveSubtitlesEnabled = FALSE]

\* ------------------------------------------------------- useAudioCapture
\* The audio track of stream sid is no longer live: every recorder recording
\* it stops gathering and queues its final dataavailable and stop events.
audioTrackGone(S, sid) ==
  [S EXCEPT !.mediaRecorderRef =
               IF @.stream = sid THEN recorderStop(@) ELSE @,
            !.liveRecorders =
               [r \in DOMAIN S.liveRecorders |->
                  IF S.liveRecorders[r].stream = sid
                     /\ S.liveRecorders[r].state = "recording"
                    THEN [S.liveRecorders[r] EXCEPT !.state = "stopPending"]
                    ELSE S.liveRecorders[r]]]

EndedTrack(t) == IF t = "live" THEN "ended" ELSE t

\* stream.getTracks().forEach(track => track.stop())
stopTracks(S, sid) ==
  audioTrackGone([S EXCEPT !.streams[sid].audio = EndedTrack(@),
                            !.streams[sid].video = EndedTrack(@)],
                 sid)

\* startCapture up to the await of getDisplayMedia.
startCapture(S) ==
  [S EXCEPT !.captureError = NoError, !.acquiring = @ + 1]

\* startCapture after getDisplayMedia settled with outcome.
startCaptureSettled(S, outcome) ==
  LET S0 == [S EXCEPT !.acquiring = @ - 1]
      sid == Len(S.streams) + 1
  IN  CASE outcome = "stream" ->
             [S0 EXCEPT !.streams = Append(@, [audio |-> "live", video |-> "live",
                                               listening |-> TRUE]),
                        !.openContexts = @ \cup {sid},
                        !.audioContextRef = sid,
                        !.activeIntervals = @ \cup {sid},
                        !.audioLevelIntervalRef = sid,
                        !.isCapturing = TRUE,
                        !.hasAudioTrack = TRUE,
                        !.captureError = NoError,
                        !.stream = sid]
        [] outcome = "noAudio" ->
             stopTracks([S0 EXCEPT !.streams = Append(@, [audio |-> "none",
                                                          video |-> "live",
                                                          listening |-> FALSE]),
                                   !.captureError = "noAudioTrack"],
                        sid)
        [] outcome = "contextUnsupported" ->
             \* new AudioContext throws NotSupportedError: the catch block
             \* reports it and leaves the obtained stream as it is
             [S0 EXCEPT !.streams = Append(@, [audio |-> "live", video |-> "live",
                                               listening |-> FALSE]),
                        !.captureError = "browserUnsupported"]
        [] outcome = "denied" -> [S0 EXCEPT !.captureError = "permissionDenied"]
        [] outcome = "unsupported" -> [S0 EXCEPT !.captureError = "browserUnsupported"]
        [] OTHER -> [S0 EXCEPT !.captureError = "unknown"]

\* stopCapture leaving hasAudioTrack as it is.
stopCaptureKeepingTrackFlag(S, closureStream) ==
  LET S1 == [S EXCEPT !.activeIntervals = @ \ {S.audioLevelIntervalRef},
                      !.audioLevelIntervalRef = 0,
                      !.openContexts = @ \ {S.audioContextRef},
                      !.audioContextRef = 0]
      S2 == IF closureStream # 0 THEN stopTracks(S1, closureStream) ELSE S1
  IN  [S2 EXCEPT !.isCapturing = FALSE,
                 !.captureError = NoError,
                 !.stream = 0]

\* stopCapture of a render in which state.stream was closureStream.
stopCapture(S, closureStream) ==
  LET S1 == [S EXCEPT !.activeIntervals = @ \ {S.audioLevelIntervalRef},
                      !.audioLevelIntervalRef = 0,
                      !.openContexts = @ \ {S.audioContextRef},
                      !.audioContextRef = 0]
      S2 == IF closureStream # 0 THEN stopTracks(S1, closureStream) ELSE S1
  IN  [S2 EXCEPT !.isCapturing = FALSE,
                 !.hasAudioTrack = FALSE,
                 !.captureError = NoError,
                 !.stream = 0]

\* The 'ended' listener startCapture attaches to every track. startCapture is
\* memoised with no dependencies, so the stopCapture it calls is the one of
\* the first render, where state.stream is null.
onTrackEnded(S) == stopCapture(S, 0)

\* ---------------------------------------------- AudioCapture (component)
handleStopCapture(S, throws) ==
  LET S1 == stopCapture(S, S.stream)
  IN  IF S.isRecording THEN stopRecording(S1, S.isRecording, throws) ELSE S1

handleClearRecording(S) ==
  [clearRecording(S) EXCEPT !.subtitles = << >>]

clearTranscript(S) == [S EXCEPT !.subtitles = << >>]

\* ------------------------------------------------------------------ Init
\* The state after the first render, for hook options o.
InitWith(o) ==
  /\ opts = o
  /\ mimeSupported \in BOOLEAN
  /\ isCapturing = FALSE /\ hasAudioTrack = FALSE
  /\ captureError = NoError /\ stream = 0
  /\ audioContextRef = 0 /\ audioLevelIntervalRef = 0
  /\ acquiring = 0 /\ streams = << >>
  /\ openContexts = {} /\ activeIntervals = {}
  /\ isRecording = FALSE /\ downloadUrl = NoUrl
  /\ recError = NoError /\ timerRef = FALSE
  /\ mediaRecorderRef = NoRecorder
  /\ chunksRef = << >> /\ segmentChunksRef = << >>
  /\ segmentElapsedMsRef = 0
  /\ liveSubtitlesEnabled = FALSE /\ liveLoopActiveRef = FALSE
  /\ liveRecorderRef = 0 /\ liveRecorders = << >>
  /\ jobs = << >> /\ requested = << >> /\ subtitles = << >>
  /\ calls = << >> /\ decodeContexts = {} /\ fetches = << >>
  /\ nextChunk = 1 /\ recordings = 0

\* The options the component passes (part_006, lines 32-34).
AppOpts == [streamToServer |-> FALSE, segmentDurationSec |-> 5]

\* ------------------------------------------------- actions: user interface
\* "Start Capture" is rendered while not capturing.
ClickStartCapture(captures) ==
  /\ ~isCapturing
  /\ Len(streams) + acquiring < captures
  /\ Becomes(startCapture(Cur))

\* "Stop Capture" is rendered while capturing.
ClickStopCapture ==
  /\ isCapturing
  /\ \E throws \in BOOLEAN : Becomes(handleStopCapture(Cur, throws))

\* "Start Recording": rendered while capturing and not recording, enabled
\* with an audio track; handleStartRecording repeats the two guards.
ClickStartRecording(limit) ==
  /\ isCapturing /\ ~isRecording /\ hasAudioTrack
  /\ recordings < limit
  /\ Becomes(startRecording(Cur))

\* "Stop Recording": rendered while capturing and recording.
ClickStopRecording ==
  /\ isCapturing /\ isRecording
  /\ \E throws \in BOOLEAN : Becomes(stopRecording(Cur, isRecording, throws))

\* "Clear" of the finished recording: rendered while a download URL exists.
ClickClearRecording ==
  /\ downloadUrl # NoUrl
  /\ Becomes(handleClearRecording(Cur))

\* "Clear" of the transcript panel: rendered while the transcript has lines.
ClickClearTranscript ==
  /\ Len(subtitles) > 0
  /\ Becomes(clearTranscript(Cur))

\* "Enable Live TTS": rendered while capturing with live subtitles off.
ClickEnableLive(recorders) ==
  /\ isCapturing /\ ~liveSubtitlesEnabled /\ hasAudioTrack
  /\ Len(liveRecorders) < recorders
  /\ \E ctorThrows \in BOOLEAN : Becomes(startLiveSubtitles(Cur, ctorThrows))

\* "Disable Live TTS": rendered while capturing with live subtitles on.
ClickDisableLive ==
  /\ isCapturing /\ liveSubtitlesEnabled
  /\ Becomes(stopLiveSubtitles(Cur))

\* ---------------------------------------------- actions: the hook's caller
\* useAudioRecording(stream, opts) used directly: the caller re-renders with
\* another stream (one with or without an audio track) or with null.
StreamKinds == {"live", "none"}

CallerPassesStream(limit) ==
  \/ /\ Len(streams) < limit
     /\ \E audio \in StreamKinds :
          Becomes([Cur EXCEPT !.streams = Append(@, [audio |-> audio,
                                                    video |-> "live",
                                                    listening |-> FALSE]),
                              !.stream = Len(streams) + 1])
  \/ /\ stream # 0
     /\ Becomes([Cur EXCEPT !.stream = 0])

\* The caller takes the audio track out of a stream it passed
\* (stream.removeTrack); recorders already running record their own
\* audio-only stream and go on.
CallerRemovesAudioTrack ==
  \E sid \in DOMAIN streams :
    /\ streams[sid].audio = "live"
    /\ Becomes([Cur EXCEPT !.streams[sid].audio = "none"])

\* The caller invokes startRecording / startLiveSubtitles / the stops without
\* the component's button guards.
CallStartRecording(limit) ==
  /\ ~isRecording
  /\ recordings < limit
  /\ Becomes(startRecording(Cur))

CallStopRecording ==
  /\ isRecording
  /\ \E throws \in BOOLEAN : Becomes(stopRecording(Cur, isRecording, throws))

CallStartLive(recorders) ==
  /\ ~liveSubtitlesEnabled
  /\ Len(liveRecorders) < recorders
  /\ \E ctorThrows \in BOOLEAN : Becomes(startLiveSubtitles(Cur, ctorThrows))

CallStopLive ==
  /\ liveSubtitlesEnabled
  /\ Becomes(stopLiveSubtitles(Cur))

\* The caller invokes startLiveSubtitles twice in one task: the second call
\* is the same callback, whose liveSubtitlesEnabled is still the false of the
\* render it was created in.
CallStartLiveTwice(recorders) ==
  /\ ~liveSubtitlesEnabled
  /\ Len(liveRecorders) + 1 < recorders
  /\ \E first \in BOOLEAN, second \in BOOLEAN :
       LET S1 == startLiveSubtitles(Cur, first)
           S2 == startLiveSubtitles([S1 EXCEPT !.liveSubtitlesEnabled = FALSE],
                                    second)
       IN  Becomes([S2 EXCEPT !.liveSubtitlesEnabled =
                                 S1.liveSubtitlesEnabled \/ @])

\* ------------------------------------------------- actions: browser tasks
\* Blobs handed to ensureWavBlob: recorded WebM (stereo at 48 kHz, mono at
\* 16 kHz) and WAV files (canonical, and stereo at 48 kHz).
InputBlobs ==
  { [type |-> "audio/webm", channels |-> 2, rate |-> 48000, bits |-> 0, pcm |-> << >>],
    [type |-> "audio/webm", channels |-> 1, rate |-> 16000, bits |-> 0, pcm |-> << >>],
    [type |-> "audio/wav", channels |-> 1, rate |-> 16000, bits |-> 16, pcm |-> << >>],
    [type |-> "audio/wav", channels |-> 2, rate |-> 48000, bits |-> 16, pcm |-> << >>] }

\* Sample rates of the AudioContext that decodes, and rendered samples (in
\* thousandths) that startRendering can deliver.
DeviceSampleRates == {44100, 48000}
SampleValues == {0 - 1500, 0 - 1000, 0 - 500, 0, 500, 1000, 1500}
RenderedSamples == { << v >> : v \in SampleValues }

\* The blobs earlier calls have returned.
ReturnedBlobs == { calls[c].output : c \in { d \in DOMAIN calls : calls[d].pc = "returned" } }

\* What the /transcribe endpoint may answer: a 2xx with the result as JSON, or
\* a non-2xx whose body is JSON with an error field, JSON without one, plain
\* text, or empty.
JsonBody(text, error, result) ==
  [body |-> text, parsed |-> [valid |-> TRUE, error |-> error, text |-> result]]

TextBody(text) == [body |-> text, parsed |-> NotJson]

ResultBodies ==
  { JsonBody("{text: hello}", "", "hello"), JsonBody("{text: }", "", "") }

ErrorBodies ==
  { JsonBody("{error: model not loaded}", "model not loaded", ""),
    JsonBody("{detail: bad request}", "", ""),
    TextBody("Internal Server Error"),
    TextBody("") }

FailureStatuses == {400, 500}

Responses ==
  { [status |-> 200, body |-> b.body, parsed |-> b.parsed, bodyUsed |-> FALSE] :
      b \in ResultBodies }
  \cup { [status |-> st, body |-> b.body, parsed |-> b.parsed,
          bodyUsed |-> FALSE] : st \in FailureStatuses, b \in ErrorBodies }

CallTranscribeBlob(limit) ==
  /\ Len(fetches) < limit
  /\ Becomes(transcribeBlob(Cur))

FetchSettles ==
  \E f \in DOMAIN fetches :
    /\ fetches[f].pc = "fetching"
    /\ \/ Becomes(fetchSettled(Cur, f, TRUE, NoResponse))
       \/ \E res \in Responses : Becomes(fetchSettled(Cur, f, FALSE, res))

\* ensureWavBlob is called with a blob, or again with a blob it returned.
CallEnsureWavBlob(limit) ==
  /\ Len(calls) < limit
  /\ \E blob \in InputBlobs \cup ReturnedBlobs : Becomes(ensureWavBlob(Cur, blob))

ArrayBufferSettles ==
  \E c \in DOMAIN calls :
    /\ calls[c].pc = "reading"
    /\ \E ok \in BOOLEAN : Becomes(arrayBufferSettled(Cur, c, ok))

DecodeSettles ==
  \E c \in DOMAIN calls :
    /\ calls[c].pc = "decoding"
    /\ \E ok \in BOOLEAN, contextRate \in DeviceSampleRates :
         Becomes(decodeSettled(Cur, c, ok, contextRate))

ResampleSettles ==
  \E c \in DOMAIN calls :
    /\ calls[c].pc = "resampling"
    /\ \E ok \in BOOLEAN, rendered \in RenderedSamples :
         Becomes(resampleSettled(Cur, c, ok, rendered))

CloseSettles ==
  \E c \in DOMAIN calls :
    /\ calls[c].pc \in {"closing", "closingThrown"}
    /\ Becomes(closeSettled(Cur, c))

\* Texts of transcription results in the merge runs: words with leading,
\* trailing and inner whitespace, whitespace only, and no text.
MergeTexts ==
  { << "a" >>, << " ", "a", "\t" >>, << "a", " ", "b" >>,
    << "\n", "a", " ", "\n", "b" >>, << " ", "\t" >>, << >> }

\* A transcription result reaches onTranscription.
ResultArrives(texts) ==
  \E text \in texts : Becomes(onTranscription(Cur, text))

Outcomes ==
  {"stream", "noAudio", "contextUnsupported", "denied", "unsupported", "other"}

GetDisplayMediaSettles ==
  /\ acquiring > 0
  /\ \E outcome \in Outcomes : Becomes(startCaptureSettled(Cur, outcome))

\* A live track of a captured stream ends (the source stops sharing); its
\* 'ended' listener runs (listening: the start reached lines 98-102).
TrackEnds ==
  \E sid \in DOMAIN streams, kind \in {"audio", "video"} :
    /\ streams[sid].listening
    /\ streams[sid][kind] = "live"
    /\ LET S1 == [Cur EXCEPT !.streams[sid][kind] = "ended"]
           S2 == IF kind = "audio" THEN audioTrackGone(S1, sid) ELSE S1
       IN  Becomes(onTrackEnded(S2))

\* Sizes of the blob a recorder delivers: empty, or non-empty while the run
\* has blobs left.
BlobSizes(limit) == IF nextChunk <= limit THEN {0, 1} ELSE {0}

\* A timeslice of the download recorder elapses.
RecorderData(limit) ==
  /\ mediaRecorderRef.state = "recording"
  /\ nextChunk <= limit
  /\ \E size \in {0, 1} : Becomes(ondataavailable(Cur, size))

\* The stop task of the download recorder: the final dataavailable, then stop.
RecorderStops(limit) ==
  /\ mediaRecorderRef.state = "stopPending"
  /\ \E size \in BlobSizes(limit) :
       Becomes(onstop(ondataavailable(
                 [Cur EXCEPT !.mediaRecorderRef.state = "inactive"], size)))

\* The download recorder reports an internal error.
RecorderError ==
  /\ mediaRecorderRef.state = "recording"
  /\ Becomes(onerror(Cur))

\* The setTimeout of a live segment recorder expires.
SegmentTimerFires ==
  \E r \in DOMAIN liveRecorders :
    /\ liveRecorders[r].timer
    /\ Becomes(segmentTimeout(Cur, r))

\* The stop task of a live segment recorder: dataavailable, then stop.
LiveRecorderStops(limit, recorders) ==
  \E r \in DOMAIN liveRecorders :
    /\ liveRecorders[r].state = "stopPending"
    /\ liveLoopActiveRef => Len(liveRecorders) < recorders
    /\ \E size \in BlobSizes(limit), ctorThrows \in BOOLEAN :
         Becomes(liveOnstop(
                   liveOndataavailable(
                     [Cur EXCEPT !.liveRecorders[r].state = "inactive"], r, size),
                   r, ctorThrows))

\* The conversion of a submitted segment settles.
NormalizeSettles ==
  \E j \in DOMAIN jobs :
    /\ jobs[j].stage = "normalizing"
    /\ \E ok \in BOOLEAN : Becomes(normalizeSettled(Cur, j, ok))

\* The transcription request of a segment settles.
UploadSettles(texts) ==
  \E j \in DOMAIN jobs :
    /\ jobs[j].stage = "uploading"
    /\ \E ok \in BOOLEAN, text \in texts : Becomes(uploadSettled(Cur, j, ok, text))

\* Texts the transcription service returns in the session runs.
SessionTexts == { << "a" >>, << " " >> }

\* --------------------------------------------------------- specifications
\* The component as written (streamToServer off, 5 s segments): live
\* subtitles with the upload pipeline and the transcript.
Init == InitWith(AppOpts)

NextLive ==
  \/ ClickStartCapture(1)
  \/ GetDisplayMediaSettles
  \/ ClickEnableLive(MaxLiveRecorders)
  \/ ClickDisableLive
  \/ SegmentTimerFires
  \/ LiveRecorderStops(MaxLiveChunks, MaxLiveRecorders)
  \/ NormalizeSettles
  \/ UploadSettles(SessionTexts)
  \/ ClickClearTranscript

SpecLive == Init /\ [][NextLive]_vars

\* The component as written: the capture session with both toggles, segments
\* left in flight.
Next ==
  \/ ClickStartCapture(MaxStreams)
  \/ GetDisplayMediaSettles
  \/ ClickStopCapture
  \/ TrackEnds
  \/ ClickStartRecording(MaxSessionRecordings)
  \/ ClickStopRecording
  \/ ClickClearRecording
  \/ RecorderData(MaxSessionChunks)
  \/ RecorderStops(MaxSessionChunks)
  \/ RecorderError
  \/ ClickEnableLive(MaxSessionLiveRecorders)
  \/ ClickDisableLive
  \/ SegmentTimerFires
  \/ LiveRecorderStops(MaxSessionChunks, MaxSessionLiveRecorders)

Spec == Init /\ [][Next]_vars

\* The tail-retention segmenter: the hook with streamToServer on and 1 s or
\* 2 s segments, driven through the component's recording controls.
SegOpts == [streamToServer : {TRUE}, segmentDurationSec : {1, 2}]

InitSeg == \E o \in SegOpts : InitWith(o)

NextSeg ==
  \/ ClickStartCapture(1)
  \/ GetDisplayMediaSettles
  \/ ClickStartRecording(MaxRecordings)
  \/ ClickStopRecording
  \/ ClickStopCapture
  \/ ClickClearRecording
  \/ TrackEnds
  \/ RecorderData(MaxChunks)
  \/ RecorderStops(MaxChunks)
  \/ RecorderError

SpecSeg == InitSeg /\ [][NextSeg]_vars

\* The segmenter fed by recordings that nothing but their own stop interrupts:
\* chunk arrivals, stops and restarts, with the default 5 s target included.
FeedOpts == [streamToServer : {TRUE}, segmentDurationSec : {0, 1, 2, 5}]

InitFeed == \E o \in FeedOpts : InitWith(o)

NextFeed ==
  \/ ClickStartCapture(1)
  \/ GetDisplayMediaSettles
  \/ ClickStartRecording(MaxRecordings)
  \/ ClickStopRecording
  \/ ClickStopCapture
  \/ TrackEnds
  \/ RecorderData(ScenarioChunks)
  \/ RecorderStops(ScenarioChunks)
  \/ RecorderError

SpecFeed == InitFeed /\ [][NextFeed]_vars

\* The capture session alone: starts (also while an earlier one is still
\* acquiring), their outcomes, stops and ended tracks.
NextCapture ==
  \/ ClickStartCapture(MaxCaptures)
  \/ GetDisplayMediaSettles
  \/ ClickStopCapture
  \/ TrackEnds

SpecCapture == Init /\ [][NextCapture]_vars

\* The upload pipeline behind the tail-retention segmenter: the hook with
\* streamToServer on and 1 s segments, conversions and requests settling in
\* any order.
PipeOpts == [streamToServer |-> TRUE, segmentDurationSec |-> 1]

InitPipe == InitWith(PipeOpts)

NextPipe ==
  \/ ClickStartCapture(1)
  \/ GetDisplayMediaSettles
  \/ ClickStartRecording(MaxPipeRecordings)
  \/ ClickStopRecording
  \/ RecorderData(MaxPipeChunks)
  \/ RecorderStops(MaxPipeChunks)
  \/ NormalizeSettles
  \/ UploadSettles(SessionTexts)

SpecPipe == InitPipe /\ [][NextPipe]_vars

\* Live subtitles switched on and off while segments are in the pipeline,
\* every transcription result carrying words.
ResultTexts == { << "a" >>, << "b" >> }

NextAfterStop ==
  \/ ClickStartCapture(1)
  \/ GetDisplayMediaSettles
  \/ ClickEnableLive(MaxLiveRecorders)
  \/ ClickDisableLive
  \/ SegmentTimerFires
  \/ LiveRecorderStops(MaxLiveChunks, MaxLiveRecorders)
  \/ NormalizeSettles
  \/ UploadSettles(ResultTexts)
  \/ ClickClearTranscript

SpecAfterStop == Init /\ [][NextAfterStop]_vars

\* Transcript Merge alone: results arriving in any order, and clears.
NextMerge ==
  \/ ResultArrives(MergeTexts)
  \/ ClickClearTranscript

SpecMerge == Init /\ [][NextMerge]_vars

\* Live subtitles filling the transcript in a session that is stopped (by
\* the button or by an ended track) and reset.
NextReset ==
  \/ ClickStartCapture(1)
  \/ GetDisplayMediaSettles
  \/ ClickStopCapture
  \/ TrackEnds
  \/ ClickEnableLive(MaxLiveRecorders)
  \/ ClickDisableLive
  \/ SegmentTimerFires
  \/ LiveRecorderStops(MaxLiveChunks, MaxLiveRecorders)
  \/ NormalizeSettles
  \/ UploadSettles(ResultTexts)
  \/ ClickClearTranscript

SpecReset == Init /\ [][NextReset]_vars

\* The component as written with both toggles and the upload pipeline: the
\* download recording and live subtitles side by side, every result carrying
\* words.
NextToggles ==
  \/ ClickStartCapture(1)
  \/ GetDisplayMediaSettles
  \/ ClickStartRecording(MaxTogglesRecordings)
  \/ ClickStopRecording
  \/ RecorderData(MaxTogglesChunks)
  \/ RecorderStops(MaxTogglesChunks)
  \/ ClickEnableLive(MaxTogglesLiveRecorders)
  \/ ClickDisableLive
  \/ SegmentTimerFires
  \/ LiveRecorderStops(MaxTogglesChunks, MaxTogglesLiveRecorders)
  \/ NormalizeSettles
  \/ UploadSettles(ResultTexts)

SpecToggles == Init /\ [][NextToggles]_vars

\* The live re-spawn loop of the hook alone: the caller's stream may lose its
\* audio track and recorder construction may fail at any re-spawn.
NextRespawn ==
  \/ CallerPassesStream(MaxRespawnStreams)
  \/ CallerRemovesAudioTrack
  \/ CallStartLive(MaxRespawnRecorders)
  \/ CallStopLive
  \/ SegmentTimerFires
  \/ LiveRecorderStops(MaxRespawnChunks, MaxRespawnRecorders)

SpecRespawn == Init /\ [][NextRespawn]_vars

\* Live subtitles of the component with the browser delivering what it has
\* queued: a segment timer that is set expires, and the stop task of a
\* stopped recorder runs.
NextLoopEnds ==
  \/ ClickStartCapture(1)
  \/ GetDisplayMediaSettles
  \/ ClickEnableLive(MaxLiveRecorders)
  \/ ClickDisableLive
  \/ SegmentTimerFires
  \/ LiveRecorderStops(MaxLiveChunks, MaxLiveRecorders)

SpecLoopEnds ==
  /\ Init /\ [][NextLoopEnds]_vars
  /\ WF_vars(SegmentTimerFires)
  /\ WF_vars(LiveRecorderStops(MaxLiveChunks, MaxLiveRecorders))

\* The live toggle of the hook called in any order a caller can produce:
\* a start right after a stop, and two starts in one task.
NextOverlap ==
  \/ CallerPassesStream(1)
  \/ CallStartLive(MaxOverlapRecorders)
  \/ CallStartLiveTwice(MaxOverlapRecorders)
  \/ CallStopLive
  \/ SegmentTimerFires
  \/ LiveRecorderStops(MaxOverlapChunks, MaxOverlapRecorders)

SpecOverlap == Init /\ [][NextOverlap]_vars

\* The transcription client alone: transcribeBlob calls and the responses
\* of the /transcribe endpoint.
NextTranscribe ==
  \/ CallTranscribeBlob(MaxFetches)
  \/ FetchSettles

SpecTranscribe == Init /\ [][NextTranscribe]_vars

\* The normalizer alone: ensureWavBlob calls overlapping in any way.
NextNormalize ==
  \/ CallEnsureWavBlob(MaxNormalizerCalls)
  \/ ArrayBufferSettles
  \/ DecodeSettles
  \/ ResampleSettles
  \/ CloseSettles

SpecNormalize == Init /\ [][NextNormalize]_vars

\* The recording hook alone, called with whatever stream its caller holds.
NextHook ==
  \/ CallerPassesStream(MaxHookStreams)
  \/ CallStartRecording(MaxHookRecorders)
  \/ CallStopRecording
  \/ CallStartLive(MaxHookRecorders)
  \/ CallStopLive
  \/ RecorderData(MaxHookChunks)
  \/ RecorderStops(MaxHookChunks)
  \/ SegmentTimerFires
  \/ LiveRecorderStops(MaxHookChunks, MaxHookRecorders)

SpecHook == Init /\ [][NextHook]_vars

\* ------------------------------------------------------------ properties
Ids(n) == [i \in 1..n |-> i]
Drop(s, n) == SubSeq(s, n + 1, Len(s))

\* The segments submitted by download recording no, in submission order.
RECURSIVE SegmentsOf(_, _)
SegmentsOf(js, no) ==
  IF js = << >> THEN << >>
  ELSE IF Head(js).src = "recording" /\ Head(js).rec = no
         THEN << Head(js).seg >> \o SegmentsOf(Tail(js), no)
         ELSE SegmentsOf(Tail(js), no)

\* The first segment followed by every later one without its carry-over prefix.
RECURSIVE NonOverlap(_, _)
NonOverlap(segs, first) ==
  IF segs = << >> THEN << >>
  ELSE (IF first THEN Head(segs) ELSE Drop(Head(segs), Min(4, Len(Head(segs)))))
       \o NonOverlap(Tail(segs), FALSE)

\* A non-empty timeslice chunk reaches the running download recorder.
ChunkArrival ==
  /\ mediaRecorderRef.state = "recording"
  /\ mediaRecorderRef'.state = "recording"
  /\ nextChunk' = nextChunk + 1

\* C1: with streamToServer on, every non-empty chunk is appended and adds one
\* timeslice (250 ms) to the elapsed time; exactly when that reaches the
\* target, all buffered chunks are submitted as one segment, the buffer keeps
\* its last min(4, count) chunks and elapsed time is 250 ms per kept chunk;
\* below the target nothing is submitted.
C1_SealOnTarget ==
  [][ (ChunkArrival /\ opts.streamToServer) =>
        LET buffered == Append(segmentChunksRef, nextChunk)
            elapsed == segmentElapsedMsRef + 250
            kept == Min(4, Len(buffered))
        IN  /\ chunksRef' = Append(chunksRef, nextChunk)
            /\ IF elapsed >= segmentTargetMs(opts)
                 THEN /\ Len(jobs') = Len(jobs) + 1
                      /\ jobs'[Len(jobs')].seg = buffered
                      /\ SubSeq(jobs', 1, Len(jobs)) = jobs
                      /\ segmentChunksRef' = LastN(buffered, kept)
                      /\ segmentElapsedMsRef' = kept * 250
                 ELSE /\ jobs' = jobs
                      /\ segmentChunksRef' = buffered
                      /\ segmentElapsedMsRef' = elapsed ]_vars

\* C1 witness: a 2 s segment of 8 chunks was sealed on arrival and its last 4
\* chunks are the buffer of the running recorder.
C1_Witness ==
  /\ opts.segmentDurationSec = 2
  /\ mediaRecorderRef.state = "recording"
  /\ Len(jobs) = 1 /\ Len(jobs[1].seg) = 8
  /\ segmentChunksRef = LastN(jobs[1].seg, 4)
  /\ segmentElapsedMsRef = 1000

\* C2: in a recording that only chunk arrivals and its stop act on, the first
\* 4 chunks of every segment after the first are the last 4 chunks of the
\* segment before it (the stop's final segment included).
C2_CarryOver ==
  \A no \in 1..recordings :
    LET segs == SegmentsOf(jobs, no)
    IN  \A k \in 1..(Len(segs) - 1) :
          /\ Len(segs[k]) >= 4 /\ Len(segs[k + 1]) >= 4
          /\ FirstN(segs[k + 1], 4) = LastN(segs[k], 4)

\* C2 witness: a stopped recording submitted three segments, the last one on
\* stop with chunks beyond its carry-over.
C2_Witness ==
  /\ mediaRecorderRef.state = "inactive"
  /\ LET segs == SegmentsOf(jobs, mediaRecorderRef.no)
     IN  Len(segs) = 3 /\ Len(segs[3]) > 4 /\ Len(segs[3]) < Len(segs[2])

\* C3 (as claimed): once a recording has stopped, its segments without their
\* carry-over prefixes concatenate to exactly the chunks delivered to it,
\* whatever was interleaved.
C3_ExactlyOnce ==
  mediaRecorderRef.state = "inactive" =>
    NonOverlap(SegmentsOf(jobs, mediaRecorderRef.no), TRUE) = chunksRef

\* C4: 5 s target, first recording, recorder running: no segment before the
\* 20th chunk; after the 20th exactly one segment, chunks 1..20, and the
\* buffer is chunks 17..20 with 1000 ms elapsed.
C4_TwentyChunks ==
  (/\ segmentTargetMs(opts) = 5000
   /\ recordings = 1
   /\ mediaRecorderRef.state = "recording") =>
     /\ nextChunk <= 20 =>
          /\ jobs = << >>
          /\ segmentChunksRef = Ids(nextChunk - 1)
     /\ nextChunk = 21 =>
          /\ Len(jobs) = 1
          /\ jobs[1].seg = Ids(20)
          /\ segmentChunksRef = << 17, 18, 19, 20 >>
          /\ segmentElapsedMsRef = 1000

\* C4 witness: the 20th chunk has arrived at the first, running recording.
C4_Witness ==
  /\ segmentTargetMs(opts) = 5000
  /\ recordings = 1
  /\ mediaRecorderRef.state = "recording"
  /\ nextChunk = 21
  /\ Len(jobs) = 1

\* The stop task of the download recorder runs.
RecorderStopStep ==
  /\ mediaRecorderRef.state = "stopPending"
  /\ mediaRecorderRef'.state = "inactive"

\* C5: when the stop task leaves a non-empty buffer below the target, those
\* chunks are submitted as one final segment and buffer and elapsed time are
\* reset; with a 5 s target, a first recording of 17 chunks submits nothing
\* until its stop and then one segment of chunks 1..17.
C5_FinalFlush ==
  /\ [][ (RecorderStopStep /\ opts.streamToServer) =>
           LET arrived == nextChunk' = nextChunk + 1
               buffered == IF arrived THEN Append(segmentChunksRef, nextChunk)
                                      ELSE segmentChunksRef
               elapsed == segmentElapsedMsRef + (IF arrived THEN 250 ELSE 0)
           IN  /\ segmentChunksRef' = << >>
               /\ segmentElapsedMsRef' = 0
               /\ (elapsed < segmentTargetMs(opts) /\ Len(buffered) > 0) =>
                    /\ Len(jobs') = Len(jobs) + 1
                    /\ jobs'[Len(jobs')].seg = buffered
                    /\ SubSeq(jobs', 1, Len(jobs)) = jobs ]_vars
  /\ [](( /\ segmentTargetMs(opts) = 5000
          /\ recordings = 1
          /\ nextChunk = 18 ) =>
            IF mediaRecorderRef.state = "inactive"
              THEN /\ Len(jobs) = 1 /\ jobs[1].seg = Ids(17)
                   /\ segmentChunksRef = << >> /\ segmentElapsedMsRef = 0
              ELSE jobs = << >>)

\* C5 witness: the first recording was stopped after 17 chunks and its one
\* segment is submitted.
C5_Witness ==
  /\ segmentTargetMs(opts) = 5000
  /\ recordings = 1
  /\ nextChunk = 18
  /\ mediaRecorderRef.state = "inactive"
  /\ Len(jobs) = 1

\* The jobs whose transcription request has been issued and has not settled.
InFlight == { j \in DOMAIN jobs : jobs[j].stage = "uploading" }
LiveJobs == { j \in DOMAIN jobs : jobs[j].src = "live" }

\* C6 (as claimed): no transcription request is ever issued for chunks of a
\* live recorder that was recording when stopLiveSubtitles was called.
C6_StopLiveDiscards ==
  \A k \in DOMAIN requested :
    jobs[requested[k]].src = "live" =>
      ~liveRecorders[jobs[requested[k]].rec].stoppedByStopLive

\* The stop task of live recorder r runs.
LiveStopStep(r) ==
  /\ liveRecorders[r].state = "stopPending"
  /\ liveRecorders'[r].state = "inactive"

\* C6 (amended): the stop task of a recorder that stopLiveSubtitles stopped
\* submits the audio it buffered as one final segment (nothing is submitted
\* for an empty blob), and starts no recorder while the loop flag is off.
C6_StopLiveFlushes ==
  [][ \A r \in DOMAIN liveRecorders :
        (LiveStopStep(r) /\ liveRecorders[r].stoppedByStopLive) =>
          /\ nextChunk' = nextChunk + 1 =>
               /\ Len(jobs') = Len(jobs) + 1
               /\ SubSeq(jobs', 1, Len(jobs)) = jobs
               /\ jobs'[Len(jobs')].seg = << nextChunk >>
               /\ jobs'[Len(jobs')].src = "live"
               /\ jobs'[Len(jobs')].rec = r
          /\ nextChunk' = nextChunk => jobs' = jobs
          /\ ~liveLoopActiveRef => Len(liveRecorders') = Len(liveRecorders) ]_vars

\* C6 witness: the request for the segment of a recorder stopped by
\* stopLiveSubtitles has been issued.
C6_Witness ==
  \E k \in DOMAIN requested :
    /\ jobs[requested[k]].src = "live"
    /\ liveRecorders[jobs[requested[k]].rec].stoppedByStopLive
    /\ ~liveSubtitlesEnabled

\* C7 (as claimed): at most one live segment upload is in flight.
C7_OneInFlight == Cardinality(InFlight \cap LiveJobs) <= 1

\* C7 (amended): every live recorder submits at most one segment, made of the
\* chunks it buffered and submitted only once it has stopped; so the uploads
\* in flight are at most one per stopped recorder, not at most one.
C7_OnePerStoppedRecorder ==
  /\ \A j \in LiveJobs :
       /\ liveRecorders[jobs[j].rec].state = "inactive"
       /\ jobs[j].seg = liveRecorders[jobs[j].rec].chunks
  /\ \A i, j \in LiveJobs : jobs[i].rec = jobs[j].rec => i = j
  /\ Cardinality(InFlight \cap LiveJobs)
       <= Cardinality({ r \in DOMAIN liveRecorders :
                          liveRecorders[r].state = "inactive" })

\* C7 witness: the requests of two live segments are in flight together.
C7_Witness == Cardinality(InFlight \cap LiveJobs) = 2

\* C8 (as claimed): transcription requests are issued in the order in which
\* the segments were sealed.
C8_RequestsInSealOrder ==
  \A a, b \in DOMAIN requested : a < b => requested[a] < requested[b]

\* C9 (as claimed): when "Stop Capture" stops the tracks no download or live
\* recorder is recording, and afterwards isCapturing and liveSubtitlesEnabled
\* are false and the download recorder is stopped (isRecording false, at the
\* latest when its pending stop event is delivered).
C9_StopsRecordersFirst ==
  [][ ClickStopCapture =>
        /\ mediaRecorderRef.state # "recording"
        /\ \A r \in DOMAIN liveRecorders : liveRecorders[r].state # "recording"
        /\ ~isCapturing'
        /\ ~liveSubtitlesEnabled'
        /\ isRecording' => mediaRecorderRef'.state = "stopPending" ]_vars

\* C10 (as claimed): after the 'ended' listener has run the session is idle,
\* live subtitles are off with the loop flag cleared, and the download
\* recorder is stopped (isRecording false, at the latest when its pending
\* stop event is delivered).
C10_TrackEndedFullStop ==
  [][ TrackEnds =>
        /\ ~isCapturing'
        /\ ~liveSubtitlesEnabled'
        /\ ~liveLoopActiveRef'
        /\ isRecording' => mediaRecorderRef'.state = "stopPending" ]_vars

\* C11 (as claimed): whenever the session leaves Capturing, every track of its
\* stream is stopped, its polling timer is cleared and its audio context is
\* closed.
C11_IdleReleasesAll ==
  [][ (isCapturing /\ ~isCapturing') =>
        /\ streams'[stream].audio # "live"
        /\ streams'[stream].video # "live"
        /\ audioContextRef \notin openContexts'
        /\ audioLevelIntervalRef \notin activeIntervals' ]_vars

\* The streams with a track that is live.
LiveStreams ==
  { sid \in DOMAIN streams :
      streams[sid].audio = "live" \/ streams[sid].video = "live" }

\* C12 (as claimed): a start issued while capturing or while an earlier start
\* is acquiring calls getDisplayMedia no further time, and there is never more
\* than one live stream, polling timer or audio context.
C12_OneLiveSession ==
  /\ [][ (ClickStartCapture(MaxCaptures) /\ (isCapturing \/ acquiring > 0)) =>
            acquiring' = acquiring ]_vars
  /\ [](/\ Cardinality(LiveStreams) <= 1
        /\ Cardinality(openContexts) <= 1
        /\ Cardinality(activeIntervals) <= 1)

\* A start made from Idle fails: getDisplayMedia settled and an error message
\* is set.
FailedStartStep ==
  /\ ~isCapturing
  /\ acquiring' = acquiring - 1
  /\ captureError' # NoError

\* C13 (as claimed): a failed start leaves the session Idle with stream null,
\* every track of a stream it obtained stopped, and no polling timer or audio
\* context created.
C13_FailedStartHoldsNothing ==
  [][ FailedStartStep =>
        /\ ~isCapturing' /\ stream' = 0
        /\ \A sid \in DOMAIN streams' \ DOMAIN streams :
             streams'[sid].audio # "live" /\ streams'[sid].video # "live"
        /\ openContexts' = openContexts
        /\ activeIntervals' = activeIntervals ]_vars

\* The hook holds no stream, or a stream without an audio track.
NoAudioToRecord == stream = 0 \/ streams[stream].audio = "none"

\* C14: startRecording called with no stream or with a stream without an audio
\* track constructs no recorder, leaves isRecording false and reports an
\* error; startLiveSubtitles called so constructs no segment recorder, ends
\* with liveSubtitlesEnabled and the loop flag false and reports an error.
C14_NoTrackNoRecorder ==
  [][ /\ (CallStartRecording(MaxHookRecorders) /\ NoAudioToRecord) =>
           /\ recordings' = recordings
           /\ mediaRecorderRef' = mediaRecorderRef
           /\ ~isRecording'
           /\ recError' # NoError
      /\ (CallStartLive(MaxHookRecorders) /\ NoAudioToRecord) =>
           /\ liveRecorders' = liveRecorders
           /\ liveRecorderRef' = liveRecorderRef
           /\ ~liveSubtitlesEnabled' /\ ~liveLoopActiveRef'
           /\ recError' # NoError ]_vars

\* C14 witness: live subtitles were requested on a stream without an audio
\* track and ended off, with the error reported and no recorder made.
C14_Witness ==
  /\ stream # 0 /\ streams[stream].audio = "none"
  /\ recError = "lostTrack"
  /\ ~liveSubtitlesEnabled /\ ~liveLoopActiveRef
  /\ liveRecorders = << >> /\ recordings = 0

\* The conversion of job j fails / the request of job j fails.
NormalizationFails(j) ==
  /\ jobs[j].stage = "normalizing"
  /\ jobs'[j].payload = "raw"

UploadFails(j) ==
  /\ jobs[j].stage = "uploading"
  /\ jobs'[j].stage = "failed"

\* The step changes nothing of the session, the recorders, the segment buffer,
\* the transcript or another job.
SessionUnchanged(j) ==
  /\ isCapturing' = isCapturing /\ stream' = stream
  /\ isRecording' = isRecording /\ mediaRecorderRef' = mediaRecorderRef
  /\ liveSubtitlesEnabled' = liveSubtitlesEnabled
  /\ liveLoopActiveRef' = liveLoopActiveRef
  /\ liveRecorders' = liveRecorders
  /\ chunksRef' = chunksRef
  /\ segmentChunksRef' = segmentChunksRef
  /\ segmentElapsedMsRef' = segmentElapsedMsRef
  /\ subtitles' = subtitles
  /\ DOMAIN jobs' = DOMAIN jobs
  /\ \A k \in DOMAIN jobs : k # j => jobs'[k] = jobs[k]

RequestsOf(j) == { k \in DOMAIN requested : requested[k] = j }

\* C17: a submitted segment (a job) has at most one transcription request,
\* none before its conversion settled; once its request succeeded or failed
\* the job never changes again and no request is added for it.
C17_NoRetry ==
  /\ [](\A j \in DOMAIN jobs :
          /\ Cardinality(RequestsOf(j)) <= 1
          /\ jobs[j].stage = "normalizing" => RequestsOf(j) = {})
  /\ [][ \A j \in DOMAIN jobs :
            jobs[j].stage \in {"failed", "done"} =>
              /\ jobs'[j] = jobs[j]
              /\ \A k \in DOMAIN requested' :
                   requested'[k] = j => k \in DOMAIN requested ]_vars

\* C17 witness: a segment's only request failed and the request of a segment
\* sealed after it has completed.
C17_Witness ==
  \E i, j \in DOMAIN jobs :
    /\ i < j
    /\ jobs[i].stage = "failed" /\ Cardinality(RequestsOf(i)) = 1
    /\ jobs[j].stage = "done"

\* A transcript after a line of words t was merged into prev (fewer than 200
\* lines): t is appended unless it repeats the last line.
MergedWith(prev, t) ==
  IF prev # << >> /\ prev[Len(prev)] = t THEN prev ELSE Append(prev, t)

C19_NoAdjacentDuplicates ==
  /\ Len(subtitles) <= 200
  /\ \A i \in 1..(Len(subtitles) - 1) : subtitles[i] # subtitles[i + 1]

\* C19 witness: the transcript is full.
C19_Witness ==
  /\ Len(subtitles) = 200
  /\ subtitles[1] # subtitles[2]

\* The text of each result of the merge runs with every whitespace run
\* collapsed to one space and the ends trimmed.
ExpectedNormal(text) ==
  CASE text = << "a" >> -> << "a" >>
    [] text = << " ", "a", "\t" >> -> << "a" >>
    [] text = << "a", " ", "b" >> -> << "a", " ", "b" >>
    [] text = << "\n", "a", " ", "\n", "b" >> -> << "a", " ", "b" >>
    [] text = << " ", "\t" >> -> << >>
    [] text = << >> -> << >>

\* C20: in every reachable transcript and for every result text, the text is
\* normalized as specified, and merging a text whose normal form is empty or
\* equals the last line returns the transcript unchanged.
C20_DiscardLeavesTranscript ==
  \A text \in MergeTexts :
    LET n == ExpectedNormal(text)
    IN  /\ NormalizeText(text) = n
        /\ ( \/ n = << >>
             \/ (subtitles # << >> /\ subtitles[Len(subtitles)] = n) ) =>
               onTranscription(Cur, text).subtitles = subtitles

\* C20 witness: the transcript ends with a line that an arriving text, not
\* yet normalized, repeats.
C20_Witness ==
  /\ Len(subtitles) >= 2
  /\ \E text \in MergeTexts :
       /\ text # subtitles[Len(subtitles)]
       /\ ExpectedNormal(text) = subtitles[Len(subtitles)]

\* The transcript expected after a line n that is neither empty nor the last
\* line was merged: n appended, the oldest line dropped beyond 200.
AppendedTo(prev, n) ==
  IF Len(prev) >= 200 THEN Append(Tail(prev), n) ELSE Append(prev, n)

\* C21: for every reachable transcript and every result text whose normal
\* form is non-empty and differs from the last line, the merge gives the
\* transcript with that normal form appended as last line and only the most
\* recent 200 lines kept (one line when the transcript was empty); and every
\* step that changes a transcript without clearing it is such an append.
C21_AppendsNormalized ==
  /\ [](\A text \in MergeTexts :
          LET n == ExpectedNormal(text)
              isNew == /\ n # << >>
                       /\ (subtitles = << >> \/ subtitles[Len(subtitles)] # n)
          IN  isNew =>
                /\ onTranscription(Cur, text).subtitles = AppendedTo(subtitles, n)
                /\ subtitles = << >> =>
                     onTranscription(Cur, text).subtitles = << n >>)
  /\ [][ (subtitles' # subtitles /\ subtitles' # << >>) =>
            \E text \in MergeTexts :
              subtitles' = AppendedTo(subtitles, ExpectedNormal(text)) ]_vars

\* C21 witness: a full transcript of appended lines, on which the merge of a
\* new line drops the oldest.
C21_Witness ==
  /\ Len(subtitles) = 200
  /\ subtitles[200] = << "a", " ", "b" >>
  /\ subtitles[1] = << "a" >>

\* C22: for every reachable transcript and every two result texts with
\* different non-empty normal forms A and B, merging A, B, A in that order
\* gives a transcript whose last three lines are A, B, A.
C22_NonAdjacentKept ==
  \A ta, tb \in MergeTexts :
    LET a == ExpectedNormal(ta)
        b == ExpectedNormal(tb)
        after == onTranscription(
                   onTranscription(onTranscription(Cur, ta), tb), ta).subtitles
    IN  (a # << >> /\ b # << >> /\ a # b) =>
          /\ Len(after) >= 3
          /\ LastN(after, 3) = << a, b, a >>

\* C22 witness: a transcript whose last line repeats the line before the
\* previous one.
C22_Witness ==
  /\ Len(subtitles) = 3
  /\ subtitles = << << "a" >>, << "a", " ", "b" >>, << "a" >> >>

\* C23 (as claimed): the transcript is empty after every stop of the capture
\* session and after a user reset, and any other change of it is the append
\* of a result.
C23_ClearedOnStop ==
  [][ /\ (isCapturing /\ ~isCapturing') => subtitles' = << >>
      /\ ClickClearTranscript => subtitles' = << >>
      /\ (subtitles' # subtitles /\ subtitles' # << >>) =>
           \E t \in ResultTexts : subtitles' = AppendedTo(subtitles, t) ]_vars

\* The ensureWavBlob calls that have returned a blob.
Returned == { c \in DOMAIN calls : calls[c].pc = "returned" }

\* C24: every blob ensureWavBlob returns reports a WAV type, and a call whose
\* input is a blob an earlier call returned returns that same blob:
\* normalize(normalize(x)) = normalize(x).
C24_Idempotent ==
  /\ \A c \in Returned : IncludesWav(calls[c].output.type)
  /\ \A c \in Returned, d \in DOMAIN calls :
       calls[d].input = calls[c].output =>
         /\ calls[d].pc = "returned"
         /\ calls[d].output = calls[c].output

\* C24 witness: a recorded WebM blob was normalized and its output was
\* normalized again.
C24_Witness ==
  \E c, d \in Returned :
    /\ calls[c].input.type = "audio/webm"
    /\ calls[d].input = calls[c].output

\* C25 (as claimed): every blob the normalizer returns declares one channel,
\* 16000 Hz and 16 bits per sample, whatever the type of the input.
C25_AlwaysCanonical ==
  \A c \in Returned :
    /\ calls[c].output.channels = 1
    /\ calls[c].output.rate = 16000
    /\ calls[c].output.bits = 16

\* C25 (amended): a returned blob whose input did not report a WAV type is a
\* WAV that declares one channel, 16000 Hz and 16 bits per sample, whatever
\* the input declared; an input that reports a WAV type is returned as it
\* is, with whatever it declares.
C25_CanonicalUnlessWavInput ==
  \A c \in Returned :
    IF calls[c].input.type \in {"audio/wav", "audio/x-wav", "audio/wave"}
      THEN calls[c].output = calls[c].input
      ELSE /\ calls[c].output.type = "audio/wav"
           /\ calls[c].output.channels = 1
           /\ calls[c].output.rate = 16000
           /\ calls[c].output.bits = 16

\* C25 witness: a stereo 48 kHz WebM blob came back as a canonical WAV, and a
\* stereo 48 kHz WAV came back as it was.
C25_Witness ==
  /\ \E c \in Returned :
       /\ calls[c].input.type = "audio/webm" /\ calls[c].input.channels = 2
       /\ calls[c].output.channels = 1 /\ calls[c].output.rate = 16000
  /\ \E c \in Returned :
       /\ calls[c].input.type = "audio/wav" /\ calls[c].output.channels = 2

\* C26: in every blob the normalizer encoded each PCM value lies in [-32768, 32767]; a
\* rendered sample of 1.0 or above is 32767, one of -1.0 or below is -32768,
\* and 0 is 0.
C26_Quantization ==
  \A c \in { r \in Returned : calls[r].output # calls[r].input } :
    /\ Len(calls[c].output.pcm) = Len(calls[c].rendered)
    /\ \A i \in DOMAIN calls[c].rendered :
         LET x == calls[c].rendered[i]
             y == calls[c].output.pcm[i]
         IN  /\ y >= 0 - 32768 /\ y <= 32767
             /\ x >= 1000 => y = 32767
             /\ x <= 0 - 1000 => y = 0 - 32768
             /\ x = 0 => y = 0
             /\ x = 500 => y = 16383
             /\ x = 0 - 500 => y = 0 - 16384

\* C26 witness: samples of 1.5 and of -1.5 have been encoded.
C26_Witness ==
  /\ \E c \in Returned : calls[c].rendered = << 1500 >>
                          /\ calls[c].output.pcm = << 32767 >>
  /\ \E c \in Returned : calls[c].rendered = << 0 - 1500 >>
                          /\ calls[c].output.pcm = << 0 - 32768 >>

\* The calls between the creation of their AudioContext and its close.
HoldingContext ==
  { c \in DOMAIN calls :
      calls[c].pc \in {"decoding", "resampling", "closing", "closingThrown"} }

\* C28: the open decode contexts are exactly one per call that is between
\* creating its context and leaving its finally block; a call that returned
\* or threw holds none; and a step of one call never opens or closes the
\* context of another.
C28_ScopedContext ==
  /\ [](decodeContexts = HoldingContext)
  /\ [][ \A c \in DOMAIN calls :
            calls'[c] = calls[c] =>
              (c \in decodeContexts' <=> c \in decodeContexts) ]_vars

\* C28 witness: one call failed and released its context while another call
\* still holds its own.
C28_Witness ==
  \E c, d \in DOMAIN calls :
    /\ calls[c].pc = "thrown" /\ calls[c].input.type = "audio/webm"
    /\ calls[d].pc = "resampling"
    /\ decodeContexts = {d}

\* The request of job j succeeds.
UploadSucceeds(j) ==
  /\ jobs[j].stage = "uploading"
  /\ jobs'[j].stage = "done"

\* C27 (as claimed): an "Upload failed" error stays in the error field until
\* a later upload succeeds, and that success clears it; no step of another
\* kind clears it, and the mere start of a capture attempt does not clear the
\* capture error.
C27_RetainedUntilSuccess ==
  /\ [][ (recError = "uploadFailed" /\ \E j \in DOMAIN jobs : UploadSucceeds(j))
            => recError' = NoError ]_vars
  /\ [][ (recError = "uploadFailed" /\ recError' = NoError)
            => \E j \in DOMAIN jobs : UploadSucceeds(j) ]_vars
  /\ [][ (captureError # NoError /\ captureError' = NoError)
            => (stream' # stream \/ isCapturing' # isCapturing) ]_vars

\* The chunks a segment or a recorder buffer holds.
ChunksIn(seq) == { seq[k] : k \in DOMAIN seq }

\* C30: in Live mode every submitted segment is the buffer of one recorder,
\* no two segments come from the same recorder, and no chunk of one live
\* segment appears in another: a live chunk belongs to at most one segment.
C30_LiveNoOverlap ==
  /\ \A j \in LiveJobs :
       /\ jobs[j].rec \in DOMAIN liveRecorders
       /\ jobs[j].seg = liveRecorders[jobs[j].rec].chunks
  /\ \A i, j \in LiveJobs :
       i # j => /\ jobs[i].rec # jobs[j].rec
                /\ ChunksIn(jobs[i].seg) \cap ChunksIn(jobs[j].seg) = {}
  /\ \A r \in DOMAIN liveRecorders :
       \A c \in ChunksIn(liveRecorders[r].chunks) :
         Cardinality({ j \in LiveJobs : c \in ChunksIn(jobs[j].seg) }) <= 1

\* C30 witness: two consecutive live recorders each flushed a non-empty
\* segment.
C30_Witness ==
  \E i, j \in LiveJobs :
    /\ jobs[j].rec = jobs[i].rec + 1
    /\ Len(jobs[i].seg) > 0 /\ Len(jobs[j].seg) > 0

\* The message the claimed order picks for a non-2xx response: the error field
\* of a JSON body, else the body text when it is not empty, else the status.
ClaimedMessage(res) ==
  IF res.parsed.valid /\ res.parsed.error # "" THEN res.parsed.error
  ELSE IF res.body # "" THEN res.body
  ELSE "HTTP " \o ToString(res.status)

\* C29 (as claimed): a call that got a non-2xx response throws with the
\* error field of the JSON body, else the raw body text when not empty, else
\* the status code; a call that got a 2xx response returns the parsed result.
C29_MessageOrder ==
  \A f \in DOMAIN fetches :
    fetches[f].res.status # 0 =>
      IF fetches[f].res.status \in 200..299
        THEN /\ fetches[f].pc = "returned"
             /\ fetches[f].value = fetches[f].res.parsed.text
        ELSE /\ fetches[f].pc = "thrown"
             /\ fetches[f].message = ClaimedMessage(fetches[f].res)

\* A step of the download recording: its start, a chunk arrival, the stop
\* call or the stop task.
DownloadStep ==
  \/ recordings' # recordings
  \/ mediaRecorderRef' # mediaRecorderRef
  \/ chunksRef' # chunksRef
  \/ isRecording' # isRecording
  \/ downloadUrl' # downloadUrl

Contiguous(seq) == \A k \in 1..(Len(seq) - 1) : seq[k + 1] = seq[k] + 1

\* C32: a new recorder starts with an empty chunk list; every non-empty blob
\* delivered is appended to it, once, in arrival order; nothing else changes
\* the list; and the stop task seals exactly that list, with the final blob
\* when it is not empty, as the artifact of that recorder. The artifact is
\* therefore the run of blobs delivered since the start, none of an earlier
\* recording, none missing, none twice.
C32_ArtifactIsRecordingChunks ==
  /\ [][ recordings' # recordings => chunksRef' = << >> ]_vars
  /\ [][ nextChunk' # nextChunk =>
            chunksRef' = Append(chunksRef, nextChunk) ]_vars
  /\ [][ chunksRef' # chunksRef =>
            (recordings' # recordings \/ nextChunk' # nextChunk) ]_vars
  /\ [][ RecorderStopStep =>
            /\ downloadUrl'.blob = chunksRef'
            /\ downloadUrl'.url = mediaRecorderRef.no ]_vars
  /\ [](Contiguous(chunksRef) /\ Contiguous(downloadUrl.blob))
  /\ []((downloadUrl # NoUrl /\ downloadUrl.url < mediaRecorderRef.no) =>
          \A a \in DOMAIN downloadUrl.blob, b \in DOMAIN chunksRef :
            downloadUrl.blob[a] < chunksRef[b])

\* C32 witness: the second recording was sealed with three chunks, none of
\* them a chunk of the first recording.
C32_Witness ==
  /\ mediaRecorderRef.no = 2 /\ mediaRecorderRef.state = "inactive"
  /\ downloadUrl.url = 2
  /\ Len(downloadUrl.blob) = 3
  /\ downloadUrl.blob[1] > 2

\* A step of live subtitles: its start, its stop, a segment timer or the stop
\* task of a live recorder.
LiveStep ==
  \/ liveSubtitlesEnabled' # liveSubtitlesEnabled
  \/ liveLoopActiveRef' # liveLoopActiveRef
  \/ liveRecorderRef' # liveRecorderRef
  \/ liveRecorders' # liveRecorders

\* C33: a step of live subtitles (start and stop included) leaves
\* isRecording, the download recorder, its chunk list and its timer as they
\* are; a step of the download recording (start and stop included) leaves
\* liveSubtitlesEnabled, the loop flag and the live recorders as they are.
C33_IndependentToggles ==
  /\ [][ LiveStep => /\ isRecording' = isRecording
                     /\ chunksRef' = chunksRef
                     /\ mediaRecorderRef' = mediaRecorderRef
                     /\ timerRef' = timerRef
                     /\ downloadUrl' = downloadUrl ]_vars
  /\ [][ (DownloadStep \/ timerRef' # timerRef) =>
            /\ liveSubtitlesEnabled' = liveSubtitlesEnabled
            /\ liveLoopActiveRef' = liveLoopActiveRef
            /\ liveRecorderRef' = liveRecorderRef
            /\ liveRecorders' = liveRecorders ]_vars

\* C33 witness: Live was stopped while the download recording, holding a
\* chunk, goes on.
C33_Witness ==
  /\ isRecording /\ mediaRecorderRef.state = "recording"
  /\ Len(chunksRef) > 0
  /\ ~liveSubtitlesEnabled
  /\ Len(liveRecorders) = 1 /\ liveRecorders[1].stoppedByStopLive

\* The other direction: a recording was stopped while Live goes on.
RecordingStoppedLiveOn ==
  /\ ~isRecording /\ mediaRecorderRef.state = "inactive"
  /\ liveSubtitlesEnabled /\ liveLoopActiveRef
  /\ liveRecorderRef # 0 /\ liveRecorders[liveRecorderRef].state = "recording"

\* The stop task of live recorder r runs with the loop flag on and starts no
\* recorder: the stream has no audio track, or the constructor threw.
FailedRespawn(r) ==
  /\ LiveStopStep(r)
  /\ liveLoopActiveRef
  /\ Len(liveRecorders') = Len(liveRecorders)

\* C34: a re-spawn that finds no audio track in the stream starts no
\* recorder; a re-spawn that starts no recorder (no track, or the constructor
\* threw) clears the loop flag and liveSubtitlesEnabled and records an error;
\* and while the loop flag is off a recorder is started only by a step that
\* turns liveSubtitlesEnabled on, that is by startLive.
C34_RespawnFailureTurnsLiveOff ==
  /\ [][ \A r \in DOMAIN liveRecorders :
            /\ ( /\ LiveStopStep(r) /\ liveLoopActiveRef
                 /\ streams[liveRecorders[r].stream].audio = "none" ) =>
                  /\ FailedRespawn(r)
                  /\ recError' = "lostTrack"
            /\ FailedRespawn(r) =>
                  /\ ~liveLoopActiveRef' /\ ~liveSubtitlesEnabled'
                  /\ recError' \in {"lostTrack", "liveRecorderFailed"} ]_vars
  /\ [][ (~liveLoopActiveRef /\ Len(liveRecorders') > Len(liveRecorders)) =>
            (~liveSubtitlesEnabled /\ liveSubtitlesEnabled') ]_vars

\* C34 witness: Live turned itself off at a re-spawn that found the audio
\* track gone, after an earlier recorder had run.
C34_Witness ==
  /\ recError = "lostTrack"
  /\ ~liveLoopActiveRef /\ ~liveSubtitlesEnabled
  /\ Len(liveRecorders) >= 1
  /\ \A q \in DOMAIN liveRecorders : liveRecorders[q].state = "inactive"

\* The live recorders that are recording or whose stop task is still queued.
BusyLiveRecorders ==
  { r \in DOMAIN liveRecorders :
      liveRecorders[r].state \in {"recording", "stopPending"} }

\* C35: once Live is off, unless startLive turns it on again, the loop comes
\* to rest: eventually no live recorder is recording or has its stop task
\* queued; and while Live stays off no recorder is started, and once the
\* loop is at rest no segment is submitted.
C35_LoopEnds ==
  /\ (~liveSubtitlesEnabled) ~> (liveSubtitlesEnabled \/ BusyLiveRecorders = {})
  /\ [][ (~liveSubtitlesEnabled /\ ~liveSubtitlesEnabled') =>
            Len(liveRecorders') = Len(liveRecorders) ]_vars
  /\ [][ (~liveSubtitlesEnabled /\ ~liveSubtitlesEnabled'
           /\ BusyLiveRecorders = {}) =>
            /\ jobs' = jobs
            /\ \A r \in DOMAIN liveRecorders' :
                 liveRecorders'[r].state = "inactive" ]_vars

\* C35 witness: Live was stopped while a recorder was recording, and the
\* loop has come to rest with that recorder's segment submitted.
C35_Witness ==
  /\ ~liveSubtitlesEnabled /\ ~liveLoopActiveRef
  /\ BusyLiveRecorders = {}
  /\ \E r \in DOMAIN liveRecorders : liveRecorders[r].stoppedByStopLive
  /\ Len(jobs) > 0

\* The live recorders whose state is 'recording'.
RecordingLiveRecorders ==
  { r \in DOMAIN liveRecorders : liveRecorders[r].state = "recording" }

\* C36 (as claimed): at most one live segment recorder is recording, whatever
\* the interleaving of startLive, stopLive, timers and stop events.
C36_OneRecorderRecording == Cardinality(RecordingLiveRecorders) <= 1

\* C37: the elapsed time of the segmenter is 250 ms for each buffered chunk,
\* in every state: after chunk arrivals, seals, the stop flush,
\* clearRecording and repeated recordings.
C37_ElapsedMatchesBuffer ==
  segmentElapsedMsRef = Len(segmentChunksRef) * 250

\* C37 witness: in the second recording, after a stop flush and a seal have
\* happened, the buffer holds the kept tail and one more chunk.
C37_Witness ==
  /\ recordings = 2 /\ mediaRecorderRef.state = "recording"
  /\ Len(jobs) >= 2
  /\ Len(segmentChunksRef) = 5
  /\ segmentElapsedMsRef = 1250

\* C38: the segment buffer never holds more than
\* max(ceil(target / 250), 4 + 1) chunks, and every segment sealed on a chunk
\* arrival contains a chunk (the one that arrived) that no segment submitted
\* before contains, also at the 1000 ms target, which equals the overlap.
C38_BoundedAndProgressing ==
  /\ [](Len(segmentChunksRef) <=
          Max((segmentTargetMs(opts) + 249) \div 250, 4 + 1))
  /\ [][ (ChunkArrival /\ Len(jobs') > Len(jobs)) =>
            /\ Len(jobs') = Len(jobs) + 1
            /\ \E c \in ChunksIn(jobs'[Len(jobs')].seg) :
                 \A j \in DOMAIN jobs : c \notin ChunksIn(jobs[j].seg) ]_vars

\* C38 witness: at the 1000 ms target the fourth and the fifth chunk each
\* sealed a segment, and the buffer holds the 4 chunks kept.
C38_Witness ==
  /\ opts.segmentDurationSec = 1
  /\ mediaRecorderRef.state = "recording"
  /\ Len(jobs) = 2
  /\ jobs[1].seg = << 1, 2, 3, 4 >>
  /\ jobs[2].seg = << 1, 2, 3, 4, 5 >>
  /\ segmentChunksRef = << 2, 3, 4, 5 >>

\* C39 (as claimed): the recording-time interval exists only while
\* isRecording is true, whatever ended the recording.
C39_TimerOnlyWhileRecording == timerRef => isRecording

\* C40: isCapturing, stream # null and hasAudioTrack agree in every state;
\* a step that changes any of them either sets all three (a start whose
\* getDisplayMedia resolved) or resets all three (a stop).
C40_CaptureFlagsAgree ==
  /\ []((isCapturing <=> stream # 0) /\ (isCapturing <=> hasAudioTrack))
  /\ [][ (isCapturing' # isCapturing \/ stream' # stream
           \/ hasAudioTrack' # hasAudioTrack) =>
            \/ /\ isCapturing' /\ stream' # 0 /\ hasAudioTrack'
               /\ acquiring' = acquiring - 1
               /\ stream' = Len(streams')
               /\ streams'[stream'].audio = "live"
            \/ /\ ~isCapturing' /\ stream' = 0 /\ ~hasAudioTrack'
               /\ acquiring' = acquiring ]_vars

\* C40 witness: a second stream is being captured after the first one was
\* stopped.
C40_Witness ==
  /\ isCapturing /\ hasAudioTrack /\ stream = 2
  /\ streams[1].audio = "ended"

====
